---- MODULE Spec2Model ----
(***************************************************************************)
(* ImgCanvas: the document reducer (src/src/context/ImageContext.tsx) and  *)
(* the handlers that dispatch to it.                                       *)
(*                                                                         *)
(* `state` is the AppState held by useReducer(imageReducer, initialState). *)
(* Every reducer case is an operator from a draft (and its payload) to the *)
(* next AppState; every dispatching helper or handler is an action.        *)
(*                                                                         *)
(* Conventions.  JavaScript arrays are 0-based, sequences are 1-based:     *)
(* historyIndex keeps its JavaScript value, so the step under the cursor   *)
(* is history[historyIndex + 1].  null is the record Null.  An id          *)
(* `img_${Date.now()}_${random}` is the record [t |-> Date.now(), r |-> n] *)
(* where n is a fresh serial standing for the random suffix.  A payload    *)
(* newZIndex may be a half-integer, so REORDER_LAYER takes it doubled      *)
(* (newZ2 = 2 * newZIndex) and computes in doubled units.  The display     *)
(* text `description` of a history step is not kept.                       *)
(***************************************************************************)
EXTENDS Integers, Sequences, FiniteSets, TLC

\* ------------------------------------------------------------------ bounds
MaxImages == 3      \* images on the board at once
MaxOps == 3         \* dispatches in one run of Spec, from a pasted board
MaxSelOps == 6      \* dispatches in one run of SpecSel
MaxTime == 50       \* last value of the clock
TickMs == 50        \* one step of the clock
RtOps == 3          \* history steps appended before the Undo/Redo round trip
RtDispatches == 5   \* dispatches before the round trip (appends and crop setup)
CapSlack == 1       \* steps short of HistoryCap at which SpecCap stops filling
CapExtra == 3       \* dispatches of SpecCap after the filling
MaxGestureOps == 4  \* handler runs in one run of SpecGesture
MaxFrameOps == 3    \* dispatches in one run of SpecFrame
MaxCropOps == 4     \* dispatches in one run of SpecCrop
MaxResizeOps == 5   \* handler runs in one run of SpecResize
MaxAbandonOps == 4  \* handler runs and host events in one run of SpecAbandon
MaxLoadOps == 3     \* dispatches in one run of SpecLoad
MaxMoveOps == 4     \* handler runs in one run of SpecMove
MaxCalc == 100      \* largest magnitude of a value snapped in SpecCalc
MaxGrid == 44       \* largest grid size of SpecCalc
CanvasWidth == 300  \* width getCanvasBounds() reports
CanvasHeight == 200 \* height getCanvasBounds() reports

\* ------------------------------------------------------- program constants
HistoryCap == 100
DupWindowMs == 50
MinSize == 50
FineGrid == 22
CoarseGrid == 44
DeadZone == 3

Null == [null |-> TRUE]

VARIABLES
  state,    \* the AppState of useReducer(imageReducer, initialState)
  now,      \* Date.now()
  idSeq,    \* serials handed out for the random suffix of generateId
  lastOp,   \* the action dispatched last: its type, target id, payload,
            \* whether the reducer changed the state, and the type and
            \* effect of the action dispatched before it
  nops,     \* number of actions dispatched so far
  isWindows, \* navigator.userAgent names Windows (fixed for a session)
  ctl,      \* the DraggableImage that handles the pointer gesture: its image
            \* id, isDragging, isResizing, dragStart, resizeStart,
            \* pendingUpdateRef and the pending requestAnimationFrame
  scn,      \* progress of the undo/redo round trip of SpecRoundTrip: its
            \* phase, the number n of appended steps, the Undo and Redo
            \* dispatched so far, and the image collection before the first
            \* Undo
  calc,     \* the last call of a geometry utility: its name, its arguments
            \* and the value it returned
  overlay,  \* App's cropImage with the CropOverlay it renders: the image
            \* handed over, cropArea, isProcessing, and the handleApplyCrop
            \* call that awaits its image load
  paste,    \* per usePasteHandler instance: isProcessingPaste, the paste
            \* call that awaits the clipboard, and the pending reset timer
  modernClipboard \* isClipboardSupported() (fixed for a session)

vars ==
  <<state, now, idSeq, lastOp, nops, isWindows, ctl, scn, calc, overlay, paste,
    modernClipboard>>

\* ------------------------------------------------------------ initialState
initialState ==
  [ images |-> <<>>,
    selectedImageId |-> Null,
    dragMode |-> "free",
    aspectRatioLocked |-> TRUE,
    history |-> <<>>,
    historyIndex |-> -1,
    cropState |-> [imageId |-> Null, selection |-> Null, isActive |-> FALSE],
    layerSidebarVisible |-> FALSE,
    darkMode |-> FALSE,
    isLoading |-> FALSE ]

\* --------------------------------------------------------------- helpers
generateId(t, r) == [t |-> t, r |-> r]

createHistoryStep(action, images, t, r) ==
  [ id |-> generateId(t, r),
    action |-> action,
    timestamp |-> t,
    images |-> images ]

\* images.findIndex(img => img.id === id), 0-based, -1 when absent
findIndex(images, id) ==
  LET hits == { i \in 1..Len(images) : images[i].id = id }
  IN IF hits = {} THEN -1
     ELSE (CHOOSE i \in hits : \A j \in hits : i <= j) - 1

\* pushHistory without the slice: the steps after the cursor are kept
pushHistoryKeepingFuture(draft, step) ==
  LET h == Append(draft.history, step)
  IN [draft EXCEPT !.history = h, !.historyIndex = Len(h) - 1]

\* history = history.slice(0, historyIndex + 1); history.push(step);
\* historyIndex = history.length - 1
pushHistory(draft, step) ==
  LET kept == SubSeq(draft.history, 1, draft.historyIndex + 1)
      h == Append(kept, step)
  IN [draft EXCEPT !.history = h, !.historyIndex = Len(h) - 1]

\* limitHistory without the cursor decrement
limitHistoryKeepingCursor(draft) ==
  IF Len(draft.history) > HistoryCap
  THEN [draft EXCEPT !.history = Tail(@)]
  ELSE draft

\* if (history.length > 100) { history.shift(); historyIndex-- }
limitHistory(draft) ==
  IF Len(draft.history) > HistoryCap
  THEN [draft EXCEPT !.history = Tail(@), !.historyIndex = @ - 1]
  ELSE draft

\* Object.assign(target, updates) on one image
assign(img, updates) ==
  [f \in DOMAIN img |-> IF f \in DOMAIN updates THEN updates[f] ELSE img[f]]

\* ------------------------------------------------------------ reducer cases
\* a duplicate check without the time window
isDuplicateAnyAge(draft, payload, t) ==
  /\ Len(draft.images) > 0
  /\ LET img == draft.images[Len(draft.images)]
     IN /\ img.src = payload.src
        /\ img.x = payload.x
        /\ img.y = payload.y

isDuplicate(draft, payload, t) ==
  /\ Len(draft.images) > 0
  /\ LET img == draft.images[Len(draft.images)]
     IN /\ img.src = payload.src
        /\ img.x = payload.x
        /\ img.y = payload.y
        /\ t - img.id.t < DupWindowMs

\* an add that leaves the selection alone
addImageUnselected(draft, payload, t, r) ==
  IF isDuplicate(draft, payload, t) THEN draft
  ELSE
    LET newImage ==
          [ id |-> generateId(t, r + 1),
            zIndex |-> Len(draft.images),
            aspectRatioLocked |-> draft.aspectRatioLocked,
            src |-> payload.src,
            x |-> payload.x,
            y |-> payload.y,
            width |-> payload.width,
            height |-> payload.height,
            originalWidth |-> payload.originalWidth,
            originalHeight |-> payload.originalHeight,
            visible |-> payload.visible ]
        d1 == [draft EXCEPT !.images = Append(@, newImage)]
        step == createHistoryStep("add-image", d1.images, t, r + 2)
    IN limitHistory(pushHistory(d1, step))

ADD_IMAGE(draft, payload, t, r) ==
  IF isDuplicate(draft, payload, t) THEN draft
  ELSE
    LET newImage ==
          [ id |-> generateId(t, r + 1),
            zIndex |-> Len(draft.images),
            aspectRatioLocked |-> draft.aspectRatioLocked,
            src |-> payload.src,
            x |-> payload.x,
            y |-> payload.y,
            width |-> payload.width,
            height |-> payload.height,
            originalWidth |-> payload.originalWidth,
            originalHeight |-> payload.originalHeight,
            visible |-> payload.visible ]
        d1 == [draft EXCEPT !.images = Append(@, newImage),
                            !.selectedImageId = newImage.id]
        step == createHistoryStep("add-image", d1.images, t, r + 2)
    IN limitHistory(pushHistory(d1, step))

\* images.splice(imageIndex, 1) then forEach((img, index) => img.zIndex = index)
spliceRenumber(images, imageIndex) ==
  LET rest == [ i \in 1..(Len(images) - 1) |->
                  IF i <= imageIndex THEN images[i] ELSE images[i + 1] ]
  IN [ i \in 1..Len(rest) |-> [rest[i] EXCEPT !.zIndex = i - 1] ]

\* a delete whose step holds the collection as it was before the delete
deleteImageSnapshotBefore(draft, id, t, r) ==
  LET imageIndex == findIndex(draft.images, id)
  IN IF imageIndex = -1 THEN draft
     ELSE
       LET d1 == [draft EXCEPT
                    !.images = spliceRenumber(@, imageIndex),
                    !.selectedImageId = IF @ = id THEN Null ELSE @]
           step == createHistoryStep("delete-image", draft.images, t, r + 1)
       IN pushHistory(d1, step)

DELETE_IMAGE(draft, id, t, r) ==
  LET imageIndex == findIndex(draft.images, id)
  IN IF imageIndex = -1 THEN draft
     ELSE
       LET d1 == [draft EXCEPT
                    !.images = spliceRenumber(@, imageIndex),
                    !.selectedImageId = IF @ = id THEN Null ELSE @]
           step == createHistoryStep("delete-image", d1.images, t, r + 1)
       IN pushHistory(d1, step)

\* an update that also records a history step
updateImageRecording(draft, id, updates) ==
  LET imageIndex == findIndex(draft.images, id)
      d1 == IF imageIndex = -1 THEN draft
            ELSE [draft EXCEPT !.images[imageIndex + 1] = assign(@, updates)]
  IN pushHistory(d1, createHistoryStep("move-image", d1.images, 0, 0))

\* an update that writes through to the snapshot under the cursor, as it
\* would if the collection shared its objects with that snapshot
updateImageThroughAlias(draft, id, updates) ==
  LET imageIndex == findIndex(draft.images, id)
      d1 == IF imageIndex = -1 THEN draft
            ELSE [draft EXCEPT !.images[imageIndex + 1] = assign(@, updates)]
  IN IF draft.historyIndex >= 0
     THEN [d1 EXCEPT !.history[draft.historyIndex + 1].images = d1.images]
     ELSE d1

UPDATE_IMAGE(draft, id, updates) ==
  LET imageIndex == findIndex(draft.images, id)
  IN IF imageIndex = -1 THEN draft
     ELSE [draft EXCEPT !.images[imageIndex + 1] = assign(@, updates)]

SELECT_IMAGE(draft, id) == [draft EXCEPT !.selectedImageId = id]

SET_DRAG_MODE(draft, mode) == [draft EXCEPT !.dragMode = mode]

TOGGLE_ASPECT_RATIO_LOCK(draft) ==
  [draft EXCEPT !.aspectRatioLocked = ~@]

TOGGLE_LAYER_SIDEBAR(draft) ==
  [draft EXCEPT !.layerSidebarVisible = ~@]

TOGGLE_DARK_MODE(draft) == [draft EXCEPT !.darkMode = ~@]

\* a load that puts every field the payload lacks back to its initial value
loadStateReplacing(draft, payload) ==
  [ f \in DOMAIN draft |->
      IF f \in DOMAIN payload THEN payload[f] ELSE initialState[f] ]

\* Object.assign(draft, action.payload)
LOAD_STATE(draft, payload) ==
  [ f \in DOMAIN draft \cup DOMAIN payload |->
      IF f \in DOMAIN payload THEN payload[f] ELSE draft[f] ]

\* an Undo that steps from the first history step to the empty document
undoToEmpty(draft) ==
  IF draft.historyIndex > 0
  THEN [draft EXCEPT !.historyIndex = @ - 1,
                     !.images = draft.history[draft.historyIndex].images]
  ELSE IF draft.historyIndex = 0
  THEN [draft EXCEPT !.historyIndex = -1, !.images = <<>>]
  ELSE draft

\* an Undo that also drops the selection
undoClearingSelection(draft) ==
  IF draft.historyIndex > 0
  THEN [draft EXCEPT !.historyIndex = @ - 1,
                     !.images = draft.history[draft.historyIndex].images,
                     !.selectedImageId = Null]
  ELSE draft

UNDO(draft) ==
  IF draft.historyIndex > 0
  THEN [draft EXCEPT !.historyIndex = @ - 1,
                     !.images = draft.history[draft.historyIndex].images]
  ELSE draft

\* a Redo that moves the cursor and leaves the image collection alone
redoCursorOnly(draft) ==
  IF draft.historyIndex < Len(draft.history) - 1
  THEN [draft EXCEPT !.historyIndex = @ + 1]
  ELSE draft

REDO(draft) ==
  IF draft.historyIndex < Len(draft.history) - 1
  THEN [draft EXCEPT !.historyIndex = @ + 1,
                     !.images = draft.history[draft.historyIndex + 2].images]
  ELSE draft

ADD_HISTORY_STEP(draft, action, t, r) ==
  limitHistory(pushHistory(draft,
                 createHistoryStep(action, draft.images, t, r + 1)))

START_CROP(draft, id) ==
  [draft EXCEPT !.cropState =
     [imageId |-> id, selection |-> Null, isActive |-> TRUE]]

UPDATE_CROP_SELECTION(draft, selection) ==
  [draft EXCEPT !.cropState.selection = selection]

clearCrop(draft) ==
  [draft EXCEPT !.cropState =
     [imageId |-> Null, selection |-> Null, isActive |-> FALSE]]

\* a crop that takes the selection's offset as the board position
applyCropAbsolute(draft, t, r) ==
  LET cs == draft.cropState
      imageIndex == findIndex(draft.images, cs.imageId)
  IN IF cs.imageId # Null /\ cs.selection # Null /\ imageIndex # -1
     THEN
       LET sel == cs.selection
           d1 == [draft EXCEPT !.images[imageIndex + 1] =
                    [@ EXCEPT !.width = sel.width,
                              !.height = sel.height,
                              !.x = sel.x,
                              !.y = sel.y]]
           step == createHistoryStep("crop-image", d1.images, t, r + 1)
       IN clearCrop(pushHistory(d1, step))
     ELSE clearCrop(draft)

\* a crop that returns early, crop state untouched, when it has no target
applyCropEarlyReturn(draft, t, r) ==
  LET cs == draft.cropState
      imageIndex == findIndex(draft.images, cs.imageId)
  IN IF cs.imageId # Null /\ cs.selection # Null /\ imageIndex # -1
     THEN
       LET sel == cs.selection
           d1 == [draft EXCEPT !.images[imageIndex + 1] =
                    [@ EXCEPT !.width = sel.width,
                              !.height = sel.height,
                              !.x = @ + sel.x,
                              !.y = @ + sel.y]]
           step == createHistoryStep("crop-image", d1.images, t, r + 1)
       IN clearCrop(pushHistory(d1, step))
     ELSE draft

APPLY_CROP(draft, t, r) ==
  LET cs == draft.cropState
      imageIndex == findIndex(draft.images, cs.imageId)
  IN IF cs.imageId # Null /\ cs.selection # Null /\ imageIndex # -1
     THEN
       LET sel == cs.selection
           d1 == [draft EXCEPT !.images[imageIndex + 1] =
                    [@ EXCEPT !.width = sel.width,
                              !.height = sel.height,
                              !.x = @ + sel.x,
                              !.y = @ + sel.y]]
           step == createHistoryStep("crop-image", d1.images, t, r + 1)
       IN clearCrop(pushHistory(d1, step))
     ELSE clearCrop(draft)

CANCEL_CROP(draft) == clearCrop(draft)

\* the target takes newZ2 and no other image moves
shiftZ2TargetOnly(images, imageIndex, newZ2) ==
  [ i \in 1..Len(images) |->
      IF i = imageIndex + 1 THEN newZ2 ELSE 2 * images[i].zIndex ]

\* The zIndex shuffle of REORDER_LAYER in doubled units: the target takes
\* newZ2, the images between the old and the new place move by one (2).
shiftZ2(images, imageIndex, newZ2) ==
  LET oldZ2 == 2 * images[imageIndex + 1].zIndex
  IN [ i \in 1..Len(images) |->
         LET z2 == 2 * images[i].zIndex
         IN IF i = imageIndex + 1 THEN newZ2
            ELSE IF oldZ2 < newZ2
                 THEN (IF z2 <= newZ2 /\ z2 > oldZ2 THEN z2 - 2 ELSE z2)
                 ELSE (IF z2 >= newZ2 /\ z2 < oldZ2 THEN z2 + 2 ELSE z2) ]

\* the shuffled zIndex values taken as they are, without the renumbering
normalizeZSkipped(images, key) ==
  [ i \in 1..Len(images) |-> [images[i] EXCEPT !.zIndex = key[i] \div 2] ]

\* [...images].sort((a, b) => a.zIndex - b.zIndex) (stable), then
\* sortedImages.forEach((img, index) => img.zIndex = index): each image gets
\* its rank; the array order of draft.images is not changed.
normalizeZ(images, key) ==
  [ i \in 1..Len(images) |->
      [images[i] EXCEPT !.zIndex =
         Cardinality({ j \in 1..Len(images) :
                         \/ key[j] < key[i]
                         \/ (key[j] = key[i] /\ j < i) })] ]

\* a reorder that takes a half step for the whole step above it
reorderLayerRoundingUp(draft, id, newZ2, t, r) ==
  LET imageIndex == findIndex(draft.images, id)
      rounded == IF newZ2 % 2 = 1 THEN newZ2 + 1 ELSE newZ2
  IN IF imageIndex = -1 THEN draft
     ELSE
       LET d1 == [draft EXCEPT !.images =
                    normalizeZ(@, shiftZ2(@, imageIndex, rounded))]
           step == createHistoryStep("reorder-layer", d1.images, t, r + 1)
       IN limitHistory(pushHistory(d1, step))

REORDER_LAYER(draft, id, newZ2, t, r) ==
  LET imageIndex == findIndex(draft.images, id)
  IN IF imageIndex = -1 THEN draft
     ELSE
       LET d1 == [draft EXCEPT !.images =
                    normalizeZ(@, shiftZ2(@, imageIndex, newZ2))]
           step == createHistoryStep("reorder-layer", d1.images, t, r + 1)
       IN limitHistory(pushHistory(d1, step))

\* a toggle that records a step even when no image has the id
toggleVisibilityUnguarded(draft, id, t, r) ==
  LET imageIndex == findIndex(draft.images, id)
      d1 == IF imageIndex = -1 THEN draft
            ELSE [draft EXCEPT !.images[imageIndex + 1].visible = ~@]
      step == createHistoryStep("toggle-visibility", d1.images, t, r + 1)
  IN pushHistory(d1, step)

TOGGLE_LAYER_VISIBILITY(draft, id, t, r) ==
  LET imageIndex == findIndex(draft.images, id)
  IN IF imageIndex = -1 THEN draft
     ELSE
       LET d1 == [draft EXCEPT !.images[imageIndex + 1].visible = ~@]
           step == createHistoryStep("toggle-visibility", d1.images, t, r + 1)
       IN pushHistory(d1, step)

\* ------------------------------------------------------------------ inputs
\* what the paste/drop collaborators hand to addImage
Payloads ==
  { [ src |-> "a", x |-> 0, y |-> 0, width |-> 100, height |-> 100,
      originalWidth |-> 100, originalHeight |-> 100,
      visible |-> TRUE, aspectRatioLocked |-> TRUE ],
    [ src |-> "b", x |-> 10, y |-> 10, width |-> 50, height |-> 50,
      originalWidth |-> 50, originalHeight |-> 50,
      visible |-> TRUE, aspectRatioLocked |-> TRUE ] }

\* geometry-only partial updates
GeometryUpdates ==
  { [x |-> 22, y |-> 0],
    [width |-> 60, height |-> 60] }

\* crop rectangles in the image's own pixel space
Selections == { [x |-> 5, y |-> 5, width |-> 40, height |-> 30] }

\* an id no image ever had
NoSuchId == generateId(0, 0)

ImageIds(images) == { images[i].id : i \in 1..Len(images) }

\* ids of images that were deleted or undone away and survive in a snapshot
SnapshotIds(draft) ==
  UNION { ImageIds(draft.history[k].images) : k \in 1..Len(draft.history) }

\* ids a handler can be dispatched with: live images, stale ids of images that
\* are gone (an event racing a deletion), and an id that never existed
Targets == ImageIds(state.images) \cup SnapshotIds(state) \cup {NoSuchId}

Exists(draft, id) == findIndex(draft.images, id) # -1

\* newZIndex values the callers produce, doubled: integers and half-integers
\* from minZIndex - 1 to maxZIndex + 1
NewZ2s == -2 .. 2 * Len(state.images)

\* moveForward of the image menu: the newZIndex values it dispatches, doubled
\* (the lowest zIndex above the image plus 0.5; none when no image is above)
moveForward(images, image) ==
  LET higherImages == { i \in 1..Len(images) :
                          images[i].zIndex > image.zIndex }
  IN IF higherImages = {} THEN {}
     ELSE LET nextZIndex ==
                CHOOSE z \in { images[i].zIndex : i \in higherImages } :
                  \A i \in higherImages : z <= images[i].zIndex
          IN {2 * nextZIndex + 1}

\* moveBackward: the highest zIndex below the image minus 0.5, doubled
moveBackward(images, image) ==
  LET lowerImages == { i \in 1..Len(images) :
                         images[i].zIndex < image.zIndex }
  IN IF lowerImages = {} THEN {}
     ELSE LET prevZIndex ==
                CHOOSE z \in { images[i].zIndex : i \in lowerImages } :
                  \A i \in lowerImages : z >= images[i].zIndex
          IN {2 * prevZIndex - 1}

\* history actions the gesture and keyboard handlers checkpoint with
CheckpointActions == { "move-image", "resize-image" }

\* ----------------------------------------------------------------- actions
\* One dispatch: the reducer's result, the ids it generated, and the record of
\* what was dispatched.  `limit` bounds the number of dispatches of a run.
Dispatch(limit, type, id, arg, next, generated) ==
  /\ nops < limit
  /\ state' = next
  /\ idSeq' = idSeq + generated
  /\ lastOp' = [ type |-> type, id |-> id, arg |-> arg,
                 effective |-> next # state,
                 prev |-> <<lastOp.type, lastOp.effective>> ]
  /\ nops' = nops + 1
  /\ UNCHANGED now

\* a dispatch outside the round trip and outside any pointer gesture
Do(limit, type, id, arg, next, generated) ==
  /\ Dispatch(limit, type, id, arg, next, generated)
  /\ UNCHANGED <<isWindows, ctl, scn, calc, overlay, paste, modernClipboard>>

addImage(limit) ==
  \E p \in Payloads :
    /\ Len(state.images) < MaxImages
    /\ Do(limit, "ADD_IMAGE", Null, p, ADD_IMAGE(state, p, now, idSeq),
                IF isDuplicate(state, p, now) THEN 0 ELSE 2)

deleteImage(limit) ==
  \E id \in Targets :
    Do(limit, "DELETE_IMAGE", id, Null, DELETE_IMAGE(state, id, now, idSeq),
             IF Exists(state, id) THEN 1 ELSE 0)

updateImage(limit) ==
  \E id \in Targets, u \in GeometryUpdates :
    Do(limit, "UPDATE_IMAGE", id, u, UPDATE_IMAGE(state, id, u), 0)

\* handleImageClick, and the canvas background click that selects null
selectImage(limit) ==
  \E id \in ImageIds(state.images) \cup {Null} :
    Do(limit, "SELECT_IMAGE", id, Null, SELECT_IMAGE(state, id), 0)

setDragMode(limit) ==
  \E mode \in {"free", "grid-snap"} :
    Do(limit, "SET_DRAG_MODE", Null, mode, SET_DRAG_MODE(state, mode), 0)

toggleAspectRatioLock(limit) ==
  Do(limit, "TOGGLE_ASPECT_RATIO_LOCK", Null, Null,
     TOGGLE_ASPECT_RATIO_LOCK(state), 0)

toggleLayerSidebar(limit) ==
  Do(limit, "TOGGLE_LAYER_SIDEBAR", Null, Null, TOGGLE_LAYER_SIDEBAR(state), 0)

toggleDarkMode(limit) ==
  Do(limit, "TOGGLE_DARK_MODE", Null, Null, TOGGLE_DARK_MODE(state), 0)

\* what loadFromLocalStorage parses: a subset of the AppState fields, none
\* (an empty object) and all (a state saved without its images) included
LoadPayloads ==
  { <<>>,
    [dragMode |-> "grid-snap"],
    [darkMode |-> TRUE, layerSidebarVisible |-> TRUE],
    [selectedImageId |-> Null, aspectRatioLocked |-> FALSE],
    [initialState EXCEPT !.darkMode = TRUE] }

loadState(limit) ==
  \E payload \in LoadPayloads :
    Do(limit, "LOAD_STATE", Null, payload, LOAD_STATE(state, payload), 0)

undo(limit) == Do(limit, "UNDO", Null, Null, UNDO(state), 0)

redo(limit) == Do(limit, "REDO", Null, Null, REDO(state), 0)

addHistoryStepOf(limit, a) ==
  Do(limit, "ADD_HISTORY_STEP", Null, a,
     ADD_HISTORY_STEP(state, a, now, idSeq), 1)

addHistoryStep(limit) ==
  \E a \in CheckpointActions : addHistoryStepOf(limit, a)

startCrop(limit) ==
  \E id \in Targets :
    Do(limit, "START_CROP", id, Null, START_CROP(state, id), 0)

updateCropSelection(limit) ==
  \E sel \in Selections :
    Do(limit, "UPDATE_CROP_SELECTION", Null, sel,
       UPDATE_CROP_SELECTION(state, sel), 0)

applyCrop(limit) ==
  Do(limit, "APPLY_CROP", state.cropState.imageId, state.cropState.selection,
           APPLY_CROP(state, now, idSeq),
           IF /\ state.cropState.imageId # Null
              /\ state.cropState.selection # Null
              /\ Exists(state, state.cropState.imageId)
           THEN 1 ELSE 0)

cancelCrop(limit) ==
  Do(limit, "CANCEL_CROP", Null, Null, CANCEL_CROP(state), 0)

reorderLayer(limit) ==
  \E id \in Targets, newZ2 \in NewZ2s :
    Do(limit, "REORDER_LAYER", id, newZ2,
             REORDER_LAYER(state, id, newZ2, now, idSeq),
             IF Exists(state, id) THEN 1 ELSE 0)

toggleLayerVisibility(limit) ==
  \E id \in Targets :
    Do(limit, "TOGGLE_LAYER_VISIBILITY", id, Null,
             TOGGLE_LAYER_VISIBILITY(state, id, now, idSeq),
             IF Exists(state, id) THEN 1 ELSE 0)

\* ------------------------------------------- DraggableImage: the gestures
\* Pointer events are left-button events.  The resize arithmetic multiplies
\* and divides by originalWidth / originalHeight; it is exact here because
\* every payload of Payloads has a square original, and the wide payload of
\* ResizePayloads (two to one) meets even widths only.
Max(a, b) == IF a >= b THEN a ELSE b
Min(a, b) == IF a <= b THEN a ELSE b
Abs(a) == IF a >= 0 THEN a ELSE -a

\* a snap that rounds down
snapToGridFloor(value, gridSize) == (value \div gridSize) * gridSize

\* Math.round(value / gridSize) * gridSize; Math.round rounds halves up
snapToGrid(value, gridSize) ==
  ((2 * value + gridSize) \div (2 * gridSize)) * gridSize

lightSnapToGrid(value) == snapToGrid(value, CoarseGrid)

\* getCanvasBounds()
bounds == [width |-> CanvasWidth, height |-> CanvasHeight]

imageOf(draft, id) == draft.images[findIndex(draft.images, id) + 1]

Idle ==
  [ id |-> Null, isDragging |-> FALSE, isResizing |-> FALSE,
    dragStart |-> Null, resizeStart |-> Null,
    pending |-> Null, raf |-> "none" ]

\* { ...pendingUpdateRef.current, ...updates }
merge(pending, updates) ==
  IF pending = Null THEN updates
  ELSE [ f \in DOMAIN pending \cup DOMAIN updates |->
           IF f \in DOMAIN updates THEN updates[f] ELSE pending[f] ]

\* optimizedUpdateImage on the pair of the AppState and the controller: on
\* Windows while resizing the update is dispatched at once, otherwise it is
\* merged into pendingUpdateRef and one animation frame is requested.
optimizedUpdateImage(pair, win, updates) ==
  IF win /\ pair.c.isResizing
  THEN [pair EXCEPT !.st = UPDATE_IMAGE(@, pair.c.id, updates)]
  ELSE [pair EXCEPT !.c.pending = merge(@, updates),
                    !.c.raf = IF @ = "none" THEN "first" ELSE @]

\* constrainedX / constrainedY: the boundary limit of a drag move
constrained(image, newX, newY) ==
  [ x |-> Max(0, Min(bounds.width - image.width, newX)),
    y |-> Max(0, Min(bounds.height - image.height, newY)) ]

\* the drag branch of handleMouseMove
dragMove(image, dragStart, e, dragMode) ==
  LET rawX == dragStart.imgX + (e.clientX - dragStart.x)
      rawY == dragStart.imgY + (e.clientY - dragStart.y)
      newX == IF dragMode = "grid-snap" THEN lightSnapToGrid(rawX) ELSE rawX
      newY == IF dragMode = "grid-snap" THEN lightSnapToGrid(rawY) ELSE rawY
  IN constrained(image, newX, newY)

\* the switch on resizeStart.handle, the same in the three paths
resizeBase(rs, deltaX, deltaY) ==
  LET west == rs.handle \in {"sw", "nw"}
      north == rs.handle \in {"ne", "nw"}
      w == Max(MinSize, IF west THEN rs.width - deltaX ELSE rs.width + deltaX)
      h == Max(MinSize, IF north THEN rs.height - deltaY ELSE rs.height + deltaY)
  IN [ x |-> IF west THEN rs.imgX + (rs.width - w) ELSE rs.imgX,
       y |-> IF north THEN rs.imgY + (rs.height - h) ELSE rs.imgY,
       width |-> w,
       height |-> h ]

\* the aspect step of the two Windows paths: no offset correction
simpleAspect(g, image, locked) ==
  IF ~locked THEN g
  ELSE IF g.width * image.originalHeight > g.height * image.originalWidth
       THEN [g EXCEPT !.width =
               (g.height * image.originalWidth) \div image.originalHeight]
       ELSE [g EXCEPT !.height =
               (g.width * image.originalHeight) \div image.originalWidth]

\* the aspect step of the full path, with the offset correction
fullAspect(g, image, locked, handle) ==
  IF ~locked THEN g
  ELSE IF g.width * image.originalHeight > g.height * image.originalWidth
       THEN LET adjustedWidth ==
                  (g.height * image.originalWidth) \div image.originalHeight
                widthDiff == g.width - adjustedWidth
            IN [g EXCEPT !.width = adjustedWidth,
                         !.x = IF handle \in {"sw", "nw"}
                               THEN @ + widthDiff ELSE @]
       ELSE IF g.width * image.originalHeight < g.height * image.originalWidth
       THEN LET adjustedHeight ==
                  (g.width * image.originalHeight) \div image.originalWidth
                heightDiff == g.height - adjustedHeight
            IN [g EXCEPT !.height = adjustedHeight,
                         !.y = IF handle \in {"ne", "nw"}
                               THEN @ + heightDiff ELSE @]
       ELSE g

\* the boundary step of the Windows free path
clampWindowsFree(g) ==
  [ x |-> Max(0, g.x), y |-> Max(0, g.y),
    width |-> Max(MinSize, g.width), height |-> Max(MinSize, g.height) ]

\* the boundary step of the simplified path
clampSimplified(g) ==
  LET x == Max(0, Min(bounds.width - g.width, g.x))
      y == Max(0, Min(bounds.height - g.height, g.y))
  IN [ x |-> x, y |-> y,
       width |-> Max(MinSize, Min(bounds.width - x, g.width)),
       height |-> Max(MinSize, Min(bounds.height - y, g.height)) ]

\* the boundary step of the full path
clampFull(g) ==
  LET w1 == IF g.x < 0 THEN g.width + g.x ELSE g.width
      x1 == IF g.x < 0 THEN 0 ELSE g.x
      h1 == IF g.y < 0 THEN g.height + g.y ELSE g.height
      y1 == IF g.y < 0 THEN 0 ELSE g.y
      w2 == IF x1 + w1 > bounds.width THEN bounds.width - x1 ELSE w1
      h2 == IF y1 + h1 > bounds.height THEN bounds.height - y1 ELSE h1
  IN [ x |-> x1, y |-> y1,
       width |-> Max(MinSize, w2), height |-> Max(MinSize, h2) ]

snapAll(g, gridSize) ==
  [ x |-> snapToGrid(g.x, gridSize), y |-> snapToGrid(g.y, gridSize),
    width |-> snapToGrid(g.width, gridSize),
    height |-> snapToGrid(g.height, gridSize) ]

\* handleResize: the geometry one resize tick hands to optimizedUpdateImage
handleResize(image, rs, e, dragMode, win) ==
  LET base == resizeBase(rs, e.clientX - rs.x, e.clientY - rs.y)
      locked == image.aspectRatioLocked /\ ~e.shiftKey
  IN IF win /\ dragMode = "free"
     THEN clampWindowsFree(simpleAspect(base, image, locked))
     ELSE LET g == IF win
                   THEN clampSimplified(simpleAspect(base, image, locked))
                   ELSE clampFull(fullAspect(base, image, locked, rs.handle))
          IN IF dragMode = "grid-snap"
             THEN snapAll(g, IF win THEN CoarseGrid ELSE FineGrid)
             ELSE g

\* pointer positions of the events
DownAt == [clientX |-> 0, clientY |-> 0]

Pointers ==
  { [clientX |-> 2, clientY |-> 0, shiftKey |-> FALSE],
    [clientX |-> 30, clientY |-> 20, shiftKey |-> FALSE],
    [clientX |-> -40, clientY |-> -30, shiftKey |-> TRUE] }

Handles == {"se", "sw", "ne", "nw"}

\* One handler run: the AppState its dispatches leave, the ids they generated
\* and the controller state it sets.
Handle(limit, type, id, arg, next, generated, c) ==
  /\ Dispatch(limit, type, id, arg, next, generated)
  /\ ctl' = c
  /\ UNCHANGED <<isWindows, scn, calc, overlay, paste, modernClipboard>>

Mounted == ctl.id # Null /\ Exists(state, ctl.id)

handleMouseDown(limit) ==
  \E id \in ImageIds(state.images) :
    /\ ctl.id = Null
    /\ LET image == imageOf(state, id)
       IN Handle(limit, "mousedown", id, Null, SELECT_IMAGE(state, id), 0,
                 [Idle EXCEPT !.id = id,
                              !.isDragging = TRUE,
                              !.dragStart = [ x |-> DownAt.clientX,
                                              y |-> DownAt.clientY,
                                              imgX |-> image.x,
                                              imgY |-> image.y ]])

handleResizeMouseDown(limit) ==
  \E id \in ImageIds(state.images), handle \in Handles :
    /\ ctl.id = Null
    /\ LET image == imageOf(state, id)
       IN Handle(limit, "resizedown", id, handle, SELECT_IMAGE(state, id), 0,
                 [Idle EXCEPT !.id = id,
                              !.isResizing = TRUE,
                              !.resizeStart = [ x |-> DownAt.clientX,
                                                y |-> DownAt.clientY,
                                                imgX |-> image.x,
                                                imgY |-> image.y,
                                                width |-> image.width,
                                                height |-> image.height,
                                                handle |-> handle ]])

handleMouseMoveAt(limit, positions) ==
  \E e \in positions :
    /\ Mounted
    /\ LET image == imageOf(state, ctl.id)
           p0 == [st |-> state, c |-> ctl]
           p1 == IF ctl.isDragging /\ ctl.dragStart # Null
                 THEN optimizedUpdateImage(p0, isWindows,
                        dragMove(image, ctl.dragStart, e, state.dragMode))
                 ELSE p0
           p2 == IF ctl.isResizing /\ ctl.resizeStart # Null
                 THEN optimizedUpdateImage(p1, isWindows,
                        handleResize(image, ctl.resizeStart, e,
                                     state.dragMode, isWindows))
                 ELSE p1
       IN Handle(limit, "mousemove", ctl.id, e, p2.st, 0, p2.c)

handleMouseMove(limit) == handleMouseMoveAt(limit, Pointers)

\* The requestAnimationFrame callback of optimizedUpdateImage.  `due` is
\* whether a frame time has passed since the last update; when it has not, the
\* callback requests one more frame, whose callback applies the update.
animationFrame(limit) ==
  \E due \in BOOLEAN :
    /\ Mounted
    /\ ctl.raf # "none"
    /\ IF ctl.raf = "first" /\ ~(due \/ isWindows)
       THEN Handle(limit, "raf", ctl.id, due, state, 0,
                   [ctl EXCEPT !.raf = "second"])
       ELSE Handle(limit, "raf", ctl.id, due,
                   IF ctl.pending # Null
                   THEN UPDATE_IMAGE(state, ctl.id, ctl.pending) ELSE state,
                   0,
                   [ctl EXCEPT !.pending = Null, !.raf = "none"])

handleMouseUp(limit) ==
  /\ Mounted
  /\ LET image == imageOf(state, ctl.id)
         dragging == ctl.isDragging /\ ctl.dragStart # Null
         resizing == ctl.isResizing /\ ctl.resizeStart # Null
         s1 == IF dragging /\ state.dragMode = "grid-snap"
               THEN UPDATE_IMAGE(state, ctl.id,
                      [ x |-> snapToGrid(image.x, FineGrid),
                        y |-> snapToGrid(image.y, FineGrid) ])
               ELSE state
         hasActualMovement ==
           /\ dragging
           /\ \/ Abs(image.x - ctl.dragStart.imgX) > DeadZone
              \/ Abs(image.y - ctl.dragStart.imgY) > DeadZone
         s2 == IF hasActualMovement
               THEN ADD_HISTORY_STEP(s1, "move-image", now, idSeq)
               ELSE s1
         hasActualResize ==
           /\ resizing
           /\ \/ Abs(image.width - ctl.resizeStart.width) > DeadZone
              \/ Abs(image.height - ctl.resizeStart.height) > DeadZone
         s3 == IF hasActualResize
               THEN ADD_HISTORY_STEP(s2, "resize-image", now,
                                     idSeq + (IF hasActualMovement THEN 1 ELSE 0))
               ELSE s2
         s4 == IF ctl.pending # Null
               THEN UPDATE_IMAGE(s3, ctl.id, ctl.pending)
               ELSE s3
     IN Handle(limit, "mouseup", ctl.id, Null, s4,
               (IF hasActualMovement THEN 1 ELSE 0)
                 + (IF hasActualResize THEN 1 ELSE 0),
               Idle)

\* The host takes the gesture away without a mouseup (the window loses focus,
\* the button is released outside the document).  DraggableImage listens for
\* mousemove and mouseup on the document and for nothing else, so no handler
\* runs: the document and the controller stay as they are.
hostAbandons(limit) ==
  /\ Mounted
  /\ ctl.isDragging \/ ctl.isResizing
  /\ Handle(limit, "blur", ctl.id, Null, state, 0, ctl)

\* The image of the gesture has left the collection: its DraggableImage
\* unmounts, the document listeners are removed and the frame is cancelled.
unmount ==
  /\ ctl.id # Null
  /\ ~Exists(state, ctl.id)
  /\ ctl' = Idle
  /\ UNCHANGED <<state, now, idSeq, lastOp, nops, isWindows, scn, calc, overlay,
               paste, modernClipboard>>

\* the aspect-ratio lock button of the image toolbar
toggleImageAspectLock(limit) ==
  \E id \in ImageIds(state.images) :
    /\ ctl.id = Null
    /\ LET u == [aspectRatioLocked |-> ~imageOf(state, id).aspectRatioLocked]
       IN Do(limit, "UPDATE_IMAGE", id, u, UPDATE_IMAGE(state, id, u), 0)

\* ------------------------------------------------- arrow keys
ArrowKeys == {"ArrowUp", "ArrowDown", "ArrowLeft", "ArrowRight"}

\* handleImageShortcuts of the keyboard shortcut hook: the arrow keys in free
\* mode, one unit a press, ten with shift; updateImage, then ADD_HISTORY_STEP
handleImageShortcuts(limit) ==
  \E key \in ArrowKeys, shiftKey \in BOOLEAN :
    /\ state.selectedImageId # Null
    /\ state.dragMode # "grid-snap"
    /\ Exists(state, state.selectedImageId)
    /\ ctl.id = Null
    /\ LET selectedImage == imageOf(state, state.selectedImageId)
           moveDistance == IF shiftKey THEN 10 ELSE 1
           updates ==
             CASE key = "ArrowUp" ->
                    [y |-> Max(0, selectedImage.y - moveDistance)]
               [] key = "ArrowDown" -> [y |-> selectedImage.y + moveDistance]
               [] key = "ArrowLeft" ->
                    [x |-> Max(0, selectedImage.x - moveDistance)]
               [] key = "ArrowRight" -> [x |-> selectedImage.x + moveDistance]
           s1 == UPDATE_IMAGE(state, state.selectedImageId, updates)
       IN Do(limit, "keydown", state.selectedImageId,
             [key |-> key, shiftKey |-> shiftKey],
             ADD_HISTORY_STEP(s1, "move-image", now, idSeq), 1)

\* handleKeyDown of ImageCanvas: the arrow keys in grid-snap mode, one fine
\* grid cell a press, two with shift; canvasDimensions is the container
handleKeyDown(limit) ==
  \E key \in ArrowKeys, shiftKey \in BOOLEAN :
    /\ state.dragMode = "grid-snap"
    /\ state.selectedImageId # Null
    /\ Exists(state, state.selectedImageId)
    /\ ctl.id = Null
    /\ LET selectedImage == imageOf(state, state.selectedImageId)
           gridSize == FineGrid
           moveDistance == IF shiftKey THEN gridSize * 2 ELSE gridSize
           newX ==
             CASE key = "ArrowLeft" -> Max(0, selectedImage.x - moveDistance)
               [] key = "ArrowRight" ->
                    Min(bounds.width - selectedImage.width,
                        selectedImage.x + moveDistance)
               [] OTHER -> selectedImage.x
           newY ==
             CASE key = "ArrowUp" -> Max(0, selectedImage.y - moveDistance)
               [] key = "ArrowDown" ->
                    Min(bounds.height - selectedImage.height,
                        selectedImage.y + moveDistance)
               [] OTHER -> selectedImage.y
           s1 == UPDATE_IMAGE(state, state.selectedImageId,
                              [ x |-> snapToGrid(newX, gridSize),
                                y |-> snapToGrid(newY, gridSize) ])
       IN Do(limit, "keydown", state.selectedImageId,
             [key |-> key, shiftKey |-> shiftKey],
             ADD_HISTORY_STEP(s1, "move-image", now, idSeq), 1)

\* a dispatch that appended a history step generated at least one id
Appended == idSeq' > idSeq

\* Date.now() advances between two events
Tick ==
  /\ now < MaxTime
  /\ now' = now + TickMs
  /\ UNCHANGED <<state, idSeq, lastOp, nops, isWindows, ctl, scn, calc, overlay,
               paste, modernClipboard>>

\* --------------------------------------------------------- specifications
NoOp ==
  [ type |-> "INIT", id |-> Null, arg |-> Null, effective |-> FALSE,
    prev |-> <<"INIT", FALSE>> ]

\* no geometry utility has been called
NoCall == [fn |-> "none", args |-> <<>>, out |-> Null]

\* no crop overlay is open and no handleApplyCrop call is in flight
NoOverlay ==
  [image |-> Null, cropArea |-> Null, isProcessing |-> FALSE, call |-> Null]

\* per hook: useState(false), no call in flight, no reset timer pending; the
\* serial of the paste the hook handled last and whether that call added an
\* image
NoPaste ==
  [ h \in {"App", "ImageCanvas"} |->
      [ isProcessingPaste |-> FALSE, call |-> Null, timer |-> FALSE,
        event |-> 0, added |-> FALSE ] ]

\* the document after construction
NoTrip == [phase |-> "ops", n |-> 0, undos |-> 0, redos |-> 0, final |-> <<>>]

Init ==
  /\ state = initialState
  /\ now = 0
  /\ idSeq = 0
  /\ lastOp = NoOp
  /\ nops = 0
  /\ isWindows = FALSE
  /\ ctl = Idle
  /\ scn = NoTrip
  /\ calc = NoCall
  /\ overlay = NoOverlay
  /\ paste = NoPaste
  /\ modernClipboard = TRUE

\* The boards that pasting leaves: initialState after up to MaxImages accepted
\* ADD_IMAGE actions.
RECURSIVE Pasted(_)
Pasted(ps) ==
  IF ps = <<>> THEN initialState
  ELSE ADD_IMAGE(Pasted(SubSeq(ps, 1, Len(ps) - 1)), ps[Len(ps)],
                 0, 2 * (Len(ps) - 1))

PasteSeqs == UNION { [1..k -> Payloads] : k \in 0..MaxImages }

Boards ==
  { Pasted(ps) : ps \in { q \in PasteSeqs : Len(Pasted(q).images) = Len(q) } }

InitBoard ==
  /\ state \in Boards
  /\ now = 0
  /\ idSeq = 2 * MaxImages
  /\ lastOp = NoOp
  /\ nops = 0
  /\ isWindows = FALSE
  /\ ctl = Idle
  /\ scn = NoTrip
  /\ calc = NoCall
  /\ overlay = NoOverlay
  /\ paste = NoPaste
  /\ modernClipboard = TRUE

\* Spec: every reducer action the document editing handlers dispatch, from a
\* pasted board.
Next ==
  \/ addImage(MaxOps)
  \/ deleteImage(MaxOps)
  \/ updateImage(MaxOps)
  \/ selectImage(MaxOps)
  \/ undo(MaxOps)
  \/ redo(MaxOps)
  \/ addHistoryStep(MaxOps)
  \/ startCrop(MaxOps)
  \/ updateCropSelection(MaxOps)
  \/ applyCrop(MaxOps)
  \/ cancelCrop(MaxOps)
  \/ reorderLayer(MaxOps)
  \/ toggleLayerVisibility(MaxOps)

Spec == InitBoard /\ [][Next]_vars

\* SpecSel: adding, deleting, selecting, undoing and redoing only, from the
\* empty document.
NextSel ==
  \/ addImage(MaxSelOps)
  \/ deleteImage(MaxSelOps)
  \/ selectImage(MaxSelOps)
  \/ undo(MaxSelOps)
  \/ redo(MaxSelOps)
  \/ Tick

SpecSel == Init /\ [][NextSel]_vars

\* SpecGesture: drag and resize gestures on a pasted board, on either
\* platform, with the drag mode switch, the lock button, Undo and Redo.
InitGesture ==
  /\ state \in Boards
  /\ now = 0
  /\ idSeq = 2 * MaxImages
  /\ lastOp = NoOp
  /\ nops = 0
  /\ isWindows \in BOOLEAN
  /\ ctl = Idle
  /\ scn = NoTrip
  /\ calc = NoCall
  /\ overlay = NoOverlay
  /\ paste = NoPaste
  /\ modernClipboard = TRUE

NextGesture ==
  \/ handleMouseDown(MaxGestureOps)
  \/ handleResizeMouseDown(MaxGestureOps)
  \/ handleMouseMove(MaxGestureOps)
  \/ animationFrame(MaxGestureOps)
  \/ handleMouseUp(MaxGestureOps)
  \/ unmount
  \/ toggleImageAspectLock(MaxGestureOps)
  \/ setDragMode(MaxGestureOps)
  \/ undo(MaxGestureOps)
  \/ redo(MaxGestureOps)

SpecGesture == InitGesture /\ [][NextGesture]_vars

\* SpecResize: one image, square or twice as wide as high, pressed on its body
\* or on a handle and moved by distances that reach the container's edges, on
\* either platform and in either drag mode.
ResizePayloads ==
  { [ src |-> "wide", x |-> 20, y |-> 20, width |-> 200, height |-> 100,
      originalWidth |-> 200, originalHeight |-> 100,
      visible |-> TRUE, aspectRatioLocked |-> TRUE ],
    [ src |-> "a", x |-> 0, y |-> 0, width |-> 100, height |-> 100,
      originalWidth |-> 100, originalHeight |-> 100,
      visible |-> TRUE, aspectRatioLocked |-> TRUE ] }

ResizePointers ==
  { [clientX |-> 2, clientY |-> 0, shiftKey |-> FALSE],
    [clientX |-> 100, clientY |-> 10, shiftKey |-> FALSE],
    [clientX |-> 100, clientY |-> 100, shiftKey |-> FALSE],
    [clientX |-> -40, clientY |-> -30, shiftKey |-> TRUE] }

InitResize ==
  /\ state \in { ADD_IMAGE(initialState, p, 0, 0) : p \in ResizePayloads }
  /\ now = 0
  /\ idSeq = 2
  /\ lastOp = NoOp
  /\ nops = 0
  /\ isWindows \in BOOLEAN
  /\ ctl = Idle
  /\ scn = NoTrip
  /\ calc = NoCall
  /\ overlay = NoOverlay
  /\ paste = NoPaste
  /\ modernClipboard = TRUE

NextResize ==
  \/ handleMouseDown(MaxResizeOps)
  \/ handleResizeMouseDown(MaxResizeOps)
  \/ handleMouseMoveAt(MaxResizeOps, ResizePointers)
  \/ animationFrame(MaxResizeOps)
  \/ handleMouseUp(MaxResizeOps)
  \/ setDragMode(MaxResizeOps)

SpecResize == InitResize /\ [][NextResize]_vars

\* SpecCalc: the geometry utilities of DraggableImage called on their own, with
\* values on both sides of zero and every grid size up to MaxGrid, and with
\* rectangles inside, across and outside the container.
SnapValues == (0 - MaxCalc)..MaxCalc

GridSizes == 1..MaxGrid

RectXs == {0 - 20, 0, 40, 260, 320}
RectYs == {0 - 20, 0, 40, 160, 220}
RectWidths == {30, 50, 100, 300, 340}
RectHeights == {30, 50, 100, 200, 240}

Rects ==
  { [x |-> x, y |-> y, width |-> w, height |-> h] :
      x \in RectXs, y \in RectYs, w \in RectWidths, h \in RectHeights }

\* one call per run: the utilities keep nothing between two calls
Call(fn, args, out) ==
  /\ calc = NoCall
  /\ calc' = [fn |-> fn, args |-> args, out |-> out]
  /\ UNCHANGED <<state, now, idSeq, lastOp, nops, isWindows, ctl, scn,
               overlay, paste, modernClipboard>>

callSnapToGrid ==
  \E v \in SnapValues, g \in GridSizes :
    Call("snapToGrid", <<v, g>>, snapToGrid(v, g))

callLightSnapToGrid ==
  \E v \in SnapValues :
    Call("lightSnapToGrid", <<v>>, lightSnapToGrid(v))

callConstrained ==
  \E r \in Rects :
    Call("constrained", <<r>>, constrained(r, r.x, r.y))

callClampFull ==
  \E r \in Rects :
    Call("clampFull", <<r>>, clampFull(r))

NextCalc ==
  \/ callSnapToGrid
  \/ callLightSnapToGrid
  \/ callConstrained
  \/ callClampFull

SpecCalc == Init /\ [][NextCalc]_vars

\* SpecAbandon: the gestures of SpecResize with the host taking a gesture away.
\* The browser runs a requested animation frame, also after the last event of
\* a run (a requested frame takes at most two callbacks); nothing obliges the
\* user to press, move or release.
AbandonFrameLimit == MaxAbandonOps + 2

NextAbandon ==
  \/ handleMouseDown(MaxAbandonOps)
  \/ handleResizeMouseDown(MaxAbandonOps)
  \/ handleMouseMoveAt(MaxAbandonOps, ResizePointers)
  \/ animationFrame(AbandonFrameLimit)
  \/ handleMouseUp(MaxAbandonOps)
  \/ hostAbandons(MaxAbandonOps)

SpecAbandon ==
  /\ InitResize
  /\ [][NextAbandon]_vars
  /\ WF_vars(animationFrame(AbandonFrameLimit))

\* SpecMove: the moves of one image of SpecResize: drags in either drag mode
\* and the arrow keys of either mode.
NextMove ==
  \/ handleMouseDown(MaxMoveOps)
  \/ handleMouseMoveAt(MaxMoveOps, ResizePointers)
  \/ animationFrame(MaxMoveOps)
  \/ handleMouseUp(MaxMoveOps)
  \/ setDragMode(MaxMoveOps)
  \/ handleImageShortcuts(MaxMoveOps)
  \/ handleKeyDown(MaxMoveOps)

SpecMove == InitResize /\ [][NextMove]_vars

\* SpecLoad: loading a saved state among the actions that set the fields a
\* saved state holds, from a pasted board.
NextLoad ==
  \/ loadState(MaxLoadOps)
  \/ selectImage(MaxLoadOps)
  \/ setDragMode(MaxLoadOps)
  \/ toggleAspectRatioLock(MaxLoadOps)
  \/ toggleLayerSidebar(MaxLoadOps)
  \/ toggleDarkMode(MaxLoadOps)
  \/ undo(MaxLoadOps)

SpecLoad == InitBoard /\ [][NextLoad]_vars

\* SpecFrame: Undo and Redo among the actions that set the fields no history
\* snapshot holds (selection, drag mode, lock default, crop state, sidebar,
\* dark mode), from a pasted board.
NextFrame ==
  \/ addImage(MaxFrameOps)
  \/ deleteImage(MaxFrameOps)
  \/ selectImage(MaxFrameOps)
  \/ setDragMode(MaxFrameOps)
  \/ toggleAspectRatioLock(MaxFrameOps)
  \/ toggleLayerSidebar(MaxFrameOps)
  \/ toggleDarkMode(MaxFrameOps)
  \/ startCrop(MaxFrameOps)
  \/ updateCropSelection(MaxFrameOps)
  \/ undo(MaxFrameOps)
  \/ redo(MaxFrameOps)

SpecFrame == InitBoard /\ [][NextFrame]_vars

\* SpecCrop: the crop dialogue (start, select, apply, cancel) on a pasted
\* board, with the deletions and the Undo / Redo that can take its target away.
NextCrop ==
  \/ startCrop(MaxCropOps)
  \/ updateCropSelection(MaxCropOps)
  \/ applyCrop(MaxCropOps)
  \/ cancelCrop(MaxCropOps)
  \/ deleteImage(MaxCropOps)
  \/ undo(MaxCropOps)
  \/ redo(MaxCropOps)

SpecCrop == InitBoard /\ [][NextCrop]_vars

\* SpecRoundTrip: from the empty document, n history-appending actions (with
\* the crop setup ApplyCrop needs), then n Undo, then n Redo.
RtLimit == RtDispatches + 2 * RtOps

RtAppend(A) ==
  /\ scn.phase = "ops"
  /\ nops < RtDispatches
  /\ Len(state.history) < RtOps
  /\ A
  /\ Appended

rtAddImage == RtAppend(addImage(RtLimit))
rtDeleteImage == RtAppend(deleteImage(RtLimit))
rtReorderLayer == RtAppend(reorderLayer(RtLimit))
rtToggleLayerVisibility == RtAppend(toggleLayerVisibility(RtLimit))
rtAddHistoryStep == RtAppend(addHistoryStep(RtLimit))
rtApplyCrop == RtAppend(applyCrop(RtLimit))

rtStartCrop ==
  /\ scn.phase = "ops"
  /\ nops < RtDispatches
  /\ startCrop(RtLimit)

rtUpdateCropSelection ==
  /\ scn.phase = "ops"
  /\ nops < RtDispatches
  /\ updateCropSelection(RtLimit)

rtUndo ==
  LET n == IF scn.phase = "ops" THEN Len(state.history) ELSE scn.n
  IN /\ scn.phase \in {"ops", "undo"}
     /\ n >= 1
     /\ scn.undos < n
     /\ Dispatch(RtLimit, "UNDO", Null, Null, UNDO(state), 0)
     /\ UNCHANGED <<isWindows, ctl, calc, overlay, paste, modernClipboard>>
     /\ scn' = [ phase |-> "undo", n |-> n, undos |-> scn.undos + 1,
                 redos |-> 0,
                 final |-> IF scn.phase = "ops" THEN state.images
                           ELSE scn.final ]

rtRedo ==
  /\ scn.phase \in {"undo", "redo"}
  /\ scn.undos = scn.n
  /\ scn.redos < scn.n
  /\ Dispatch(RtLimit, "REDO", Null, Null, REDO(state), 0)
  /\ UNCHANGED <<isWindows, ctl, calc, overlay, paste, modernClipboard>>
  /\ scn' = [scn EXCEPT !.phase = "redo", !.redos = @ + 1]

NextRoundTrip ==
  \/ rtAddImage
  \/ rtDeleteImage
  \/ rtReorderLayer
  \/ rtToggleLayerVisibility
  \/ rtAddHistoryStep
  \/ rtApplyCrop
  \/ rtStartCrop
  \/ rtUpdateCropSelection
  \/ rtUndo
  \/ rtRedo

SpecRoundTrip == Init /\ [][NextRoundTrip]_vars

\* SpecCap: from the empty document, one paste and then checkpoints (as the
\* arrow keys make them) until the history is CapSlack steps short of
\* HistoryCap; from there CapExtra dispatches of any reducer action.
CapFilled == HistoryCap - CapSlack

CapLimit == CapFilled + CapExtra

capPaste ==
  /\ nops < CapFilled
  /\ state.images = <<>>
  /\ addImage(CapLimit)

capFill ==
  /\ nops < CapFilled
  /\ state.images # <<>>
  /\ addHistoryStepOf(CapLimit, "move-image")

CapFree(A) == nops >= CapFilled /\ A

NextCap ==
  \/ capPaste
  \/ capFill
  \/ CapFree(addImage(CapLimit))
  \/ CapFree(deleteImage(CapLimit))
  \/ CapFree(updateImage(CapLimit))
  \/ CapFree(selectImage(CapLimit))
  \/ CapFree(undo(CapLimit))
  \/ CapFree(redo(CapLimit))
  \/ CapFree(addHistoryStep(CapLimit))
  \/ CapFree(startCrop(CapLimit))
  \/ CapFree(updateCropSelection(CapLimit))
  \/ CapFree(applyCrop(CapLimit))
  \/ CapFree(cancelCrop(CapLimit))
  \/ CapFree(reorderLayer(CapLimit))
  \/ CapFree(toggleLayerVisibility(CapLimit))

SpecCap == Init /\ [][NextCap]_vars

\* ------------------------------------------------------------------ claims
zIndexOf(images, id) == images[findIndex(images, id) + 1].zIndex

StepIds(history) == { history[k].id : k \in 1..Len(history) }

AppendingTypes ==
  { "ADD_IMAGE", "DELETE_IMAGE", "REORDER_LAYER", "TOGGLE_LAYER_VISIBILITY",
    "APPLY_CROP", "ADD_HISTORY_STEP" }

\* C1: in every reachable state the zIndex values of the N images are exactly
\* 0..N-1, each occurring once.
C1_ZIndexDense ==
  LET n == Len(state.images)
  IN /\ \A i \in 1..n : state.images[i].zIndex \in 0..(n - 1)
     /\ \A k \in 0..(n - 1) :
          Cardinality({ i \in 1..n : state.images[i].zIndex = k }) = 1

\* C1 witness: a ReorderLayer with a half-integer target has just moved an
\* image of a three-image board.
C1_Witness ==
  /\ lastOp.type = "REORDER_LAYER"
  /\ lastOp.effective
  /\ lastOp.arg % 2 = 1
  /\ Len(state.images) = 3
  /\ \E i \in 1..3 : state.images[i].zIndex # i - 1

\* C4: an effective Undo followed by a history-appending action leaves the
\* cursor on the last step, drops every step that was after the cursor, and
\* makes a following Redo a no-op.
C4_RedoBranchPruned ==
  [][ ( /\ lastOp.type = "UNDO"
        /\ lastOp.effective
        /\ lastOp'.type \in AppendingTypes
        /\ Appended )
      => ( /\ state'.historyIndex = Len(state'.history) - 1
           /\ \A k \in (state.historyIndex + 2)..Len(state.history) :
                state.history[k].id \notin StepIds(state'.history)
           /\ REDO(state') = state' ) ]_vars

\* C4 witness: an appending action has followed an effective Undo.
C4_Witness ==
  /\ lastOp.prev = <<"UNDO", TRUE>>
  /\ lastOp.type \in AppendingTypes
  /\ lastOp.effective
  /\ state.historyIndex = Len(state.history) - 1
  /\ Len(state.history) >= 2

\* C6: DeleteImage of the image at zIndex k lowers by one the zIndex of every
\* remaining image that was above k and keeps the zIndex of every image below.
C6_DeleteKeepsStacking ==
  [][ ( lastOp'.type = "DELETE_IMAGE" /\ lastOp'.effective )
      => LET k == zIndexOf(state.images, lastOp'.id)
         IN \A id \in ImageIds(state'.images) :
              LET z == zIndexOf(state.images, id)
              IN zIndexOf(state'.images, id) = IF z > k THEN z - 1 ELSE z ]_vars

\* C10: DeleteImage, UpdateImage, ReorderLayer and ToggleLayerVisibility
\* dispatched with an id of no image in the collection leave the whole
\* AppState unchanged.
C10_UnknownIdNoOp ==
  [][ ( /\ lastOp'.type \in { "DELETE_IMAGE", "UPDATE_IMAGE", "REORDER_LAYER",
                              "TOGGLE_LAYER_VISIBILITY" }
        /\ nops' = nops + 1
        /\ ~Exists(state, lastOp'.id) )
      => state' = state ]_vars

\* C10 witness: an action has just been dispatched with the id of an image
\* that was deleted, after which history and images are still there.
C10_Witness ==
  /\ lastOp.type \in { "DELETE_IMAGE", "UPDATE_IMAGE", "REORDER_LAYER",
                       "TOGGLE_LAYER_VISIBILITY" }
  /\ ~lastOp.effective
  /\ lastOp.id # NoSuchId
  /\ lastOp.id \in SnapshotIds(state)
  /\ ~Exists(state, lastOp.id)
  /\ Len(state.images) >= 1

\* C2: from the empty document, n >= 1 history-appending actions followed by
\* n Undo leave the image collection empty again.
C2_UndoAllRestoresInitial ==
  (scn.phase = "undo" /\ scn.undos = scn.n)
    => state.images = initialState.images

\* C3: n history-appending actions followed by n Undo and n Redo give back the
\* image collection the actions ended in, with the cursor on the last step.
C3_UndoRedoRoundTrip ==
  (scn.phase = "redo" /\ scn.redos = scn.n)
    => /\ state.images = scn.final
       /\ state.historyIndex = Len(state.history) - 1

\* C3 witness: a round trip of three steps is complete, and the Undo had
\* changed the collection.
C3_Witness ==
  /\ scn.phase = "redo"
  /\ scn.redos = scn.n
  /\ scn.n = 3
  /\ state.images = scn.final
  /\ state.history[1].images # scn.final

\* C5: the history never holds more than HistoryCap steps.
C5_HistoryCapped == Len(state.history) <= HistoryCap

\* C7: selectedImageId is null or the id of an image in the collection.
C7_SelectionExists ==
  state.selectedImageId = Null \/ Exists(state, state.selectedImageId)

\* C8: -1 <= historyIndex <= history.length - 1, and historyIndex is -1 only
\* while the history is empty.
C8_CursorInRange ==
  /\ state.historyIndex >= -1
  /\ state.historyIndex <= Len(state.history) - 1
  /\ (state.historyIndex = -1 => Len(state.history) = 0)

\* C8 witness: the oldest step (the add-image of the first paste) has just
\* been evicted from a full history.
C8_Witness ==
  /\ Len(state.history) = HistoryCap
  /\ state.historyIndex = HistoryCap - 1
  /\ lastOp.effective
  /\ lastOp.type \in {"ADD_IMAGE", "ADD_HISTORY_STEP", "REORDER_LAYER"}
  /\ state.history[1].action # "add-image"

\* C9: while the history is non-empty and no drag or resize gesture is in
\* progress, the image collection equals the snapshot under the cursor.
C9_CursorShowsDisplayed ==
  (Len(state.history) > 0 /\ ctl.id = Null)
    => state.images = state.history[state.historyIndex + 1].images

\* C11: UpdateImage(id, updates) changes only the fields named in updates on
\* the image with that id: every other field of that image, every other
\* image, the selection, the history list and the cursor are unchanged.
C11_UpdateTouchesNamedFields ==
  [][ ( lastOp'.type = "UPDATE_IMAGE" /\ nops' = nops + 1 )
      => LET id == lastOp'.id
             u == lastOp'.arg
         IN /\ Len(state'.images) = Len(state.images)
            /\ \A i \in 1..Len(state.images) :
                 IF state.images[i].id = id
                 THEN /\ DOMAIN state'.images[i] = DOMAIN state.images[i]
                      /\ \A f \in DOMAIN state.images[i] :
                           state'.images[i][f] =
                             IF f \in DOMAIN u THEN u[f]
                             ELSE state.images[i][f]
                 ELSE state'.images[i] = state.images[i]
            /\ [state' EXCEPT !.images = state.images] = state ]_vars

\* C11 witness: an UpdateImage has changed one image of a board of two or
\* more, and the snapshot under the cursor no longer shows the collection.
C11_Witness ==
  /\ lastOp.type = "UPDATE_IMAGE"
  /\ lastOp.effective
  /\ Len(state.images) >= 2
  /\ Len(state.history) >= 2
  /\ state.images # state.history[state.historyIndex + 1].images

\* C12: an effective Undo or Redo moves the cursor by one and replaces the
\* image collection by the snapshot at the new cursor; every other field of
\* the AppState, the history list included, is unchanged.
C12_UndoRedoFrame ==
  [][ ( /\ lastOp'.type \in {"UNDO", "REDO"}
        /\ nops' = nops + 1
        /\ lastOp'.effective )
      => /\ state'.historyIndex =
              IF lastOp'.type = "UNDO" THEN state.historyIndex - 1
              ELSE state.historyIndex + 1
         /\ state'.images = state.history[state'.historyIndex + 1].images
         /\ [state' EXCEPT !.images = state.images,
                           !.historyIndex = state.historyIndex] = state ]_vars

\* C12 witness: an effective Undo in dark mode and grid-snap mode, with an
\* image selected.
C12_Witness ==
  /\ lastOp.type = "UNDO"
  /\ lastOp.effective
  /\ state.darkMode
  /\ state.dragMode = "grid-snap"
  /\ state.selectedImageId # Null

\* the crop state names an image of the collection and holds a selection
CropReady(draft) ==
  /\ draft.cropState.imageId # Null
  /\ draft.cropState.selection # Null
  /\ Exists(draft, draft.cropState.imageId)

\* C13: an accepted AddImage, a DeleteImage, ReorderLayer or
\* ToggleLayerVisibility of an existing id, and an ApplyCrop with an existing
\* target and a selection each append exactly one new step after the steps up
\* to the cursor (less the oldest step when the cap evicts it), leave the
\* cursor on it, and the step's snapshot equals the resulting image collection.
C13_OneStepPerMutation ==
  [][ ( /\ nops' = nops + 1
        /\ \/ /\ lastOp'.type = "ADD_IMAGE"
              /\ ~isDuplicate(state, lastOp'.arg, now)
           \/ /\ lastOp'.type \in { "DELETE_IMAGE", "REORDER_LAYER",
                                    "TOGGLE_LAYER_VISIBILITY" }
              /\ Exists(state, lastOp'.id)
           \/ /\ lastOp'.type = "APPLY_CROP"
              /\ CropReady(state) )
      => LET kept == SubSeq(state.history, 1, state.historyIndex + 1)
             h2 == state'.history
             n2 == Len(h2)
         IN /\ n2 >= 1
            /\ h2[n2].id \notin StepIds(state.history)
            /\ \/ SubSeq(h2, 1, n2 - 1) = kept
               \/ /\ Len(kept) >= HistoryCap
                  /\ SubSeq(h2, 1, n2 - 1) = Tail(kept)
            /\ state'.historyIndex = n2 - 1
            /\ h2[n2].images = state'.images ]_vars

\* C13 witness: an ApplyCrop on a board of two or more images has appended
\* its crop-image step.
C13_Witness ==
  /\ lastOp.type = "APPLY_CROP"
  /\ Len(state.images) >= 2
  /\ Len(state.history) >= 2
  /\ state.history[Len(state.history)].action = "crop-image"
  /\ state.historyIndex = Len(state.history) - 1

\* C14: a step that stays in the history keeps its snapshot (and its id,
\* action and timestamp) whatever is dispatched.
C14_SnapshotsImmutable ==
  [][ \A k \in 1..Len(state.history), k2 \in 1..Len(state'.history) :
        state.history[k].id = state'.history[k2].id
          => state.history[k] = state'.history[k2] ]_vars

\* C14 witness: the collection restored by an effective Undo has been changed
\* by the next action, and differs from the snapshot it was restored from.
C14_Witness ==
  /\ lastOp.prev = <<"UNDO", TRUE>>
  /\ lastOp.type \in { "UPDATE_IMAGE", "DELETE_IMAGE", "REORDER_LAYER",
                       "TOGGLE_LAYER_VISIBILITY" }
  /\ lastOp.effective
  /\ state.historyIndex < Len(state.history) - 1 \/ lastOp.type # "UPDATE_IMAGE"
  /\ \E k \in 1..Len(state.history) :
       /\ state.history[k].images # state.images
       /\ ImageIds(state.history[k].images) = ImageIds(state.images)

\* C15: ReorderLayer of an existing image to an integer newZIndex in 0..N-1
\* leaves that image at newZIndex and keeps the relative stacking order of
\* all the other images.
C15_ReorderToInteger ==
  [][ ( /\ lastOp'.type = "REORDER_LAYER"
        /\ nops' = nops + 1
        /\ Exists(state, lastOp'.id)
        /\ lastOp'.arg % 2 = 0
        /\ (lastOp'.arg \div 2) \in 0..(Len(state.images) - 1) )
      => LET id == lastOp'.id
             others == ImageIds(state.images) \ {id}
         IN /\ ImageIds(state'.images) = ImageIds(state.images)
            /\ zIndexOf(state'.images, id) = lastOp'.arg \div 2
            /\ \A a, b \in others :
                 zIndexOf(state.images, a) < zIndexOf(state.images, b)
                   <=> zIndexOf(state'.images, a) < zIndexOf(state'.images, b)
     ]_vars

\* C15 witness: of three images at 0, 1, 2 the one at 0 has been reordered
\* to 2; it is now the highest and the other two are at 0 and 1.
C15_Witness ==
  /\ lastOp.type = "REORDER_LAYER"
  /\ lastOp.arg = 4
  /\ Len(state.images) = 3
  /\ lastOp.id = state.images[1].id
  /\ state.historyIndex >= 1
  /\ LET before == state.history[state.historyIndex].images
     IN /\ Len(before) = 3
        /\ \A i \in 1..3 : before[i].zIndex = i - 1
  /\ state.images[1].zIndex = 2
  /\ state.images[2].zIndex = 0
  /\ state.images[3].zIndex = 1

\* the image of the collection that was added last: ids are issued in
\* increasing serial order
MostRecent(images) ==
  CHOOSE img \in { images[i] : i \in 1..Len(images) } :
    \A i \in 1..Len(images) : images[i].id.r <= img.id.r

\* the most recently added image has the payload's src, x and y and was
\* created less than 50 ms before t
DuplicateOfLast(draft, payload, t) ==
  /\ Len(draft.images) > 0
  /\ LET m == MostRecent(draft.images)
     IN /\ m.src = payload.src
        /\ m.x = payload.x
        /\ m.y = payload.y
        /\ t - m.id.t < DupWindowMs

\* C16: an AddImage that is not rejected as a duplicate appends exactly one
\* image, with zIndex equal to the number of images before and an id no image
\* of the collection has, keeps the existing images as they are and selects
\* the new image.
C16_AddImageAppends ==
  [][ ( /\ lastOp'.type = "ADD_IMAGE"
        /\ nops' = nops + 1
        /\ ~DuplicateOfLast(state, lastOp'.arg, now) )
      => LET n == Len(state.images)
         IN /\ Len(state'.images) = n + 1
            /\ SubSeq(state'.images, 1, n) = state.images
            /\ state'.images[n + 1].zIndex = n
            /\ state'.images[n + 1].id \notin ImageIds(state.images)
            /\ state'.selectedImageId = state'.images[n + 1].id ]_vars

\* C16 witness: an image has been added to a board of at least one image
\* right after the selection had been set by hand.
C16_Witness ==
  /\ lastOp.type = "ADD_IMAGE"
  /\ lastOp.effective
  /\ lastOp.prev = <<"SELECT_IMAGE", TRUE>>
  /\ Len(state.images) >= 2
  /\ state.selectedImageId = state.images[Len(state.images)].id

\* C17: AddImage is rejected, leaving the whole AppState unchanged, exactly
\* when the most recently added image has the payload's src, x and y and was
\* created less than 50 ms earlier; every other AddImage adds an image.
C17_DuplicateRejection ==
  [][ ( lastOp'.type = "ADD_IMAGE" /\ nops' = nops + 1 )
      => IF DuplicateOfLast(state, lastOp'.arg, now)
         THEN state' = state
         ELSE Len(state'.images) = Len(state.images) + 1 ]_vars

\* C17 witness: a paste repeated after the window has elapsed was accepted,
\* and the same paste repeated at once has just been rejected.
C17_Witness ==
  /\ lastOp.type = "ADD_IMAGE"
  /\ ~lastOp.effective
  /\ now >= DupWindowMs
  /\ Len(state.images) >= 2
  /\ LET n == Len(state.images)
     IN /\ state.images[n].src = state.images[n - 1].src
        /\ state.images[n].x = state.images[n - 1].x
        /\ state.images[n].id.t - state.images[n - 1].id.t >= DupWindowMs

IdleCrop == [imageId |-> Null, selection |-> Null, isActive |-> FALSE]

\* C18: ApplyCrop with an existing target and a selection (sx, sy, sw, sh)
\* moves the target by (sx, sy), sets its size to sw x sh, leaves every other
\* image unchanged, appends one history step and returns the crop state to
\* idle.
C18_ApplyCropGeometry ==
  [][ ( /\ lastOp'.type = "APPLY_CROP"
        /\ nops' = nops + 1
        /\ CropReady(state) )
      => LET sel == state.cropState.selection
             i == findIndex(state.images, state.cropState.imageId) + 1
             old == state.images[i]
         IN /\ state'.images =
                 [state.images EXCEPT ![i] =
                    [old EXCEPT !.x = old.x + sel.x,
                                !.y = old.y + sel.y,
                                !.width = sel.width,
                                !.height = sel.height]]
            /\ Len(state'.history) = state.historyIndex + 2
            /\ SubSeq(state'.history, 1, state.historyIndex + 1)
                 = SubSeq(state.history, 1, state.historyIndex + 1)
            /\ state'.cropState = IdleCrop ]_vars

\* C18 witness: the second payload's image (at 10, 10) has been cropped by
\* the selection (5, 5, 40, 30) and sits at (15, 15) with size 40 x 30.
C18_Witness ==
  /\ lastOp.type = "APPLY_CROP"
  /\ state.cropState = IdleCrop
  /\ Len(state.history) >= 1
  /\ state.history[Len(state.history)].action = "crop-image"
  /\ \E i \in 1..Len(state.images) :
       /\ state.images[i].id = lastOp.id
       /\ state.images[i].x = 15
       /\ state.images[i].y = 15
       /\ state.images[i].width = 40
       /\ state.images[i].height = 30

\* C19: ApplyCrop with a null cropState.imageId, with an imageId of no image
\* in the collection, or with a null selection leaves images, history and
\* cursor unchanged and sets the crop state to idle.
C19_ApplyCropWithoutTarget ==
  [][ ( /\ lastOp'.type = "APPLY_CROP"
        /\ nops' = nops + 1
        /\ \/ state.cropState.imageId = Null
           \/ ~Exists(state, state.cropState.imageId)
           \/ state.cropState.selection = Null )
      => /\ state'.images = state.images
         /\ state'.history = state.history
         /\ state'.historyIndex = state.historyIndex
         /\ state'.cropState = IdleCrop ]_vars

\* C19 witness: ApplyCrop has run after the crop target, selection drawn, was
\* deleted; the crop state is idle and no crop-image step was recorded.
C19_Witness ==
  /\ lastOp.type = "APPLY_CROP"
  /\ lastOp.prev = <<"DELETE_IMAGE", TRUE>>
  /\ lastOp.id # Null
  /\ ~Exists(state, lastOp.id)
  /\ lastOp.arg # Null
  /\ state.cropState = IdleCrop
  /\ Len(state.history) >= 1
  /\ state.history[Len(state.history)].action = "delete-image"

\* C20: a resize tick through the se handle with aspect lock on (image locked,
\* shift not held) returns the x and y captured at gesture start, for every
\* pointer position and in every drag mode.
C20_SeResizeKeepsCorner ==
  [][ ( /\ lastOp'.type = "mousemove"
        /\ nops' = nops + 1
        /\ ctl.isResizing
        /\ ctl.resizeStart # Null
        /\ ctl.resizeStart.handle = "se"
        /\ imageOf(state, ctl.id).aspectRatioLocked
        /\ ~lastOp'.arg.shiftKey )
      => LET g == handleResize(imageOf(state, ctl.id), ctl.resizeStart,
                               lastOp'.arg, state.dragMode, isWindows)
         IN /\ g.x = ctl.resizeStart.imgX
            /\ g.y = ctl.resizeStart.imgY ]_vars

\* C21: a resize tick through the nw handle with aspect lock on (image locked,
\* shift not held) returns a rectangle whose bottom-right corner (x + width,
\* y + height) is the corner captured at gesture start, for every pointer
\* position, in every drag mode and on every resize path.
C21_NwResizeKeepsCorner ==
  [][ ( /\ lastOp'.type = "mousemove"
        /\ nops' = nops + 1
        /\ ctl.isResizing
        /\ ctl.resizeStart # Null
        /\ ctl.resizeStart.handle = "nw"
        /\ imageOf(state, ctl.id).aspectRatioLocked
        /\ ~lastOp'.arg.shiftKey )
      => LET g == handleResize(imageOf(state, ctl.id), ctl.resizeStart,
                               lastOp'.arg, state.dragMode, isWindows)
         IN /\ g.x + g.width = ctl.resizeStart.imgX + ctl.resizeStart.width
            /\ g.y + g.height = ctl.resizeStart.imgY + ctl.resizeStart.height
    ]_vars

\* C22: a resize tick with aspect lock active (image locked, shift not held)
\* returns a width and height with width * originalHeight = height *
\* originalWidth, for every handle and pointer position; a 200x100 image
\* resized through se by (+100, +10) in free mode becomes 220x110.
C22_AspectLockKeepsRatio ==
  [][ ( /\ lastOp'.type = "mousemove"
        /\ nops' = nops + 1
        /\ ctl.isResizing
        /\ ctl.resizeStart # Null
        /\ imageOf(state, ctl.id).aspectRatioLocked
        /\ ~lastOp'.arg.shiftKey )
      => LET image == imageOf(state, ctl.id)
             g == handleResize(image, ctl.resizeStart, lastOp'.arg,
                               state.dragMode, isWindows)
         IN /\ g.width * image.originalHeight = g.height * image.originalWidth
            /\ ( /\ ctl.resizeStart.width = 200
                 /\ ctl.resizeStart.height = 100
                 /\ ctl.resizeStart.handle = "se"
                 /\ state.dragMode = "free"
                 /\ lastOp'.arg.clientX - ctl.resizeStart.x = 100
                 /\ lastOp'.arg.clientY - ctl.resizeStart.y = 10 )
               => (g.width = 220 /\ g.height = 110)
    ]_vars

\* a rectangle that lies inside the container
InBounds(r) ==
  /\ r.x >= 0
  /\ r.y >= 0
  /\ r.x + r.width <= bounds.width
  /\ r.y + r.height <= bounds.height

\* C23: the boundary limit of a drag move and the boundary limit of a resize
\* leave a rectangle that lies inside the container unchanged, and applied to
\* their own result they return it again.
C23_ClampNoOpAndIdempotent ==
  /\ calc.fn = "constrained"
     => LET r == calc.args[1]
        IN /\ InBounds(r) => calc.out = [x |-> r.x, y |-> r.y]
           /\ constrained(r, calc.out.x, calc.out.y) = calc.out
  /\ calc.fn = "clampFull"
     => LET r == calc.args[1]
        IN /\ InBounds(r) => calc.out = r
           /\ clampFull(calc.out) = calc.out

\* C24: snapToGrid applied to its own result returns it again, and its result
\* is the multiple of the grid size nearest to the value (either neighbour when
\* the value lies half way); lightSnapToGrid is snapToGrid on the coarse grid.
C24_SnapIdempotentNearest ==
  /\ calc.fn = "snapToGrid"
     => LET v == calc.args[1]
            g == calc.args[2]
        IN /\ snapToGrid(calc.out, g) = calc.out
           /\ calc.out % g = 0
           /\ 2 * Abs(calc.out - v) <= g
  /\ calc.fn = "lightSnapToGrid"
     => LET v == calc.args[1]
        IN /\ lightSnapToGrid(calc.out) = calc.out
           /\ calc.out % CoarseGrid = 0
           /\ 2 * Abs(calc.out - v) <= CoarseGrid

\* a negative value half way between two multiples was snapped upwards
C24_Witness ==
  /\ calc.fn = "snapToGrid"
  /\ calc.args = <<0 - 33, FineGrid>>
  /\ calc.out = 0 - 22

\* C25: when a drag gesture ends, one move-image step is appended if the
\* image's committed position after the gesture differs from the position at
\* gesture start by more than DeadZone on some axis, and no step is appended
\* otherwise; the same for a resize gesture with resize-image and the size.
C25_StepIffBeyondDeadZone ==
  [][ ( /\ lastOp'.type = "mouseup"
        /\ nops' = nops + 1 )
      => LET after == imageOf(state', ctl.id)
             moved ==
               /\ ctl.isDragging
               /\ \/ Abs(after.x - ctl.dragStart.imgX) > DeadZone
                  \/ Abs(after.y - ctl.dragStart.imgY) > DeadZone
             resized ==
               /\ ctl.isResizing
               /\ \/ Abs(after.width - ctl.resizeStart.width) > DeadZone
                  \/ Abs(after.height - ctl.resizeStart.height) > DeadZone
             top == state'.history[Len(state'.history)]
         IN /\ idSeq' - idSeq = (IF moved \/ resized THEN 1 ELSE 0)
            /\ moved => top.action = "move-image"
            /\ resized => top.action = "resize-image"
    ]_vars

\* C26: a drag or resize gesture that the host abandons without a mouseup is
\* ended by the controller as on mouseup: eventually the controller has left
\* the dragging / resizing state and holds no uncommitted geometry.
C26_AbandonedGestureEnds ==
  (lastOp.type = "blur")
    ~> (~ctl.isDragging /\ ~ctl.isResizing /\ ctl.pending = Null)

\* C27: LoadState(payload) gives every Document field present in the payload
\* the payload's value and leaves every field absent from it unchanged; a
\* payload with no fields leaves the Document unchanged.
C27_LoadStateMerges ==
  [][ ( /\ lastOp'.type = "LOAD_STATE"
        /\ nops' = nops + 1 )
      => LET payload == lastOp'.arg
         IN /\ DOMAIN state' = DOMAIN state
            /\ \A f \in DOMAIN state :
                 state'[f] = IF f \in DOMAIN payload THEN payload[f]
                             ELSE state[f]
            /\ DOMAIN payload = {} => state' = state ]_vars

\* a payload of one field was loaded into a document that holds images and
\* has its dark mode on: the field took the payload's value, the rest stayed
C27_Witness ==
  /\ lastOp.type = "LOAD_STATE"
  /\ lastOp.effective
  /\ DOMAIN lastOp.arg = {"dragMode"}
  /\ state.dragMode = "grid-snap"
  /\ state.images # <<>>
  /\ state.darkMode

\* C28: Undo dispatched when historyIndex <= 0 and Redo dispatched when
\* historyIndex = history.length - 1 leave the whole Document unchanged, and
\* an Undo dispatched with a cursor of 0 or more leaves it at 0 or more.
C28_UndoRedoClampedAtEnds ==
  [][ /\ ( /\ lastOp'.type = "UNDO"
           /\ nops' = nops + 1
           /\ state.historyIndex <= 0 )
         => state' = state
      /\ ( /\ lastOp'.type = "REDO"
           /\ nops' = nops + 1
           /\ state.historyIndex = Len(state.history) - 1 )
         => state' = state
      /\ ( /\ lastOp'.type = "UNDO"
           /\ nops' = nops + 1
           /\ state.history # <<>>
           /\ state.historyIndex >= 0 )
         => state'.historyIndex >= 0 ]_vars

\* an Undo reached the first step and the Undo after it changed nothing
C28_Witness ==
  /\ lastOp.type = "UNDO"
  /\ ~lastOp.effective
  /\ lastOp.prev = <<"UNDO", TRUE>>
  /\ state.historyIndex = 0
  /\ Len(state.history) >= 2
  /\ state.images = state.history[1].images

\* the most recent n entries of a sequence
MostRecentEntries(h, n) ==
  IF Len(h) > n THEN SubSeq(h, Len(h) - n + 1, Len(h)) ELSE h

\* C29: from a history h with cursor c, AddHistoryStep leaves the history made
\* of h[0..c] followed by one new step that holds the current image
\* collection, reduced to its most recent HistoryCap entries, with the cursor
\* on the new step; the image collection and every other field are unchanged.
C29_AddHistoryStepResult ==
  [][ ( /\ lastOp'.type = "ADD_HISTORY_STEP"
        /\ nops' = nops + 1 )
      => LET kept == SubSeq(state.history, 1, state.historyIndex + 1)
             h2 == state'.history
             n2 == Len(h2)
         IN /\ n2 >= 1
            /\ h2[n2].id \notin StepIds(state.history)
            /\ h2[n2].action = lastOp'.arg
            /\ h2[n2].images = state.images
            /\ h2 = MostRecentEntries(Append(kept, h2[n2]), HistoryCap)
            /\ state'.historyIndex = n2 - 1
            /\ state' = [state EXCEPT !.history = h2,
                                      !.historyIndex = n2 - 1] ]_vars

\* x, y, width and height of an image
geometryOf(image) ==
  [ x |-> image.x, y |-> image.y,
    width |-> image.width, height |-> image.height ]

\* C30: once the processing of a gesture end is complete, a history step that
\* the gesture end appended holds, for the image of the gesture, the geometry
\* the live image collection holds.
C30_GestureStepHoldsFinalGeometry ==
  [][ ( /\ lastOp'.type = "mouseup"
        /\ nops' = nops + 1
        /\ Appended )
      => LET top == state'.history[Len(state'.history)]
         IN geometryOf(imageOf(top, ctl.id))
              = geometryOf(imageOf(state', ctl.id)) ]_vars

\* C31: every resize tick, for every handle, pointer position, aspect-lock
\* setting and drag mode, hands on a width and a height of at least MinSize.
C31_ResizeKeepsMinSize ==
  [][ ( /\ lastOp'.type = "mousemove"
        /\ nops' = nops + 1
        /\ ctl.isResizing
        /\ ctl.resizeStart # Null )
      => LET g == handleResize(imageOf(state, ctl.id), ctl.resizeStart,
                               lastOp'.arg, state.dragMode, isWindows)
         IN /\ g.width >= MinSize
            /\ g.height >= MinSize ]_vars

\* C32: for an image no larger than the container that lies inside it, after
\* every move (a drag-move tick, the end of a drag, an arrow key in either
\* drag mode) the position satisfies 0 <= x <= container width - width and
\* 0 <= y <= container height - height.
C32_MovesStayInside ==
  [][ /\ ( /\ lastOp'.type = "mousemove"
           /\ nops' = nops + 1
           /\ ctl.isDragging
           /\ ctl.dragStart # Null
           /\ InBounds(geometryOf(imageOf(state, ctl.id))) )
         => LET image == imageOf(state, ctl.id)
                p == dragMove(image, ctl.dragStart, lastOp'.arg,
                              state.dragMode)
            IN InBounds([geometryOf(image) EXCEPT !.x = p.x, !.y = p.y])
      /\ ( /\ lastOp'.type = "mouseup"
           /\ nops' = nops + 1
           /\ ctl.isDragging
           /\ InBounds(geometryOf(imageOf(state, ctl.id))) )
         => InBounds(geometryOf(imageOf(state', ctl.id)))
      /\ ( /\ lastOp'.type = "keydown"
           /\ nops' = nops + 1
           /\ InBounds(geometryOf(imageOf(state, lastOp'.id))) )
         => InBounds(geometryOf(imageOf(state', lastOp'.id))) ]_vars

\* C33: for an image that lies inside the container, every resize tick hands
\* on a geometry with x >= 0, y >= 0, x + width <= container width and
\* y + height <= container height, for every handle, pointer position and
\* drag mode.
C33_ResizeStaysInside ==
  [][ ( /\ lastOp'.type = "mousemove"
        /\ nops' = nops + 1
        /\ ctl.isResizing
        /\ ctl.resizeStart # Null
        /\ InBounds(geometryOf(imageOf(state, ctl.id)))
        /\ InBounds([ x |-> ctl.resizeStart.imgX, y |-> ctl.resizeStart.imgY,
                      width |-> ctl.resizeStart.width,
                      height |-> ctl.resizeStart.height ]) )
      => InBounds(handleResize(imageOf(state, ctl.id), ctl.resizeStart,
                               lastOp'.arg, state.dragMode, isWindows)) ]_vars

\* C34: once the end of a drag in grid-snap mode has been processed, the
\* pending update flushed, the image's committed x and y are multiples of
\* FineGrid.
C34_GridDragEndsOnFineGrid ==
  [][ ( /\ lastOp'.type = "mouseup"
        /\ nops' = nops + 1
        /\ ctl.isDragging
        /\ ctl.dragStart # Null
        /\ state.dragMode = "grid-snap" )
      => LET image == imageOf(state', ctl.id)
         IN /\ image.x % FineGrid = 0
            /\ image.y % FineGrid = 0 ]_vars

C36_CropStateMachine ==
  [][ /\ \/ state'.cropState = IdleCrop
         \/ /\ state'.cropState.isActive
            /\ state'.cropState.imageId # Null
      /\ (lastOp'.type = "START_CROP" /\ nops' = nops + 1)
           => state'.cropState.selection = Null
      /\ (lastOp'.type \in {"APPLY_CROP", "CANCEL_CROP"} /\ nops' = nops + 1)
           => state'.cropState = IdleCrop ]_vars

\* C37: StartCrop dispatched with an id that no image of the collection has
\* leaves the whole Document, cropState included, unchanged.
C37_StartCropUnknownId ==
  [][ ( /\ lastOp'.type = "START_CROP"
        /\ nops' = nops + 1
        /\ ~Exists(state, lastOp'.id) )
      => state' = state ]_vars

\* ------------------------------------------------------------ CropOverlay
\* dispatches budgeted in SpecOverlay
MaxOverlayOps == 3

\* useState<CropArea> of CropOverlay: 80 % of the image, at most 300
initialCropArea(image) ==
  [ x |-> 0, y |-> 0,
    width |-> Min((image.width * 4) \div 5, 300),
    height |-> Min((image.height * 4) \div 5, 300) ]

\* App's handleStartCrop: the caller hands over the image object it rendered
handleStartCrop ==
  \E i \in 1..Len(state.images) :
    /\ overlay.image = Null
    /\ overlay' = [ image |-> state.images[i],
                    cropArea |-> initialCropArea(state.images[i]),
                    isProcessing |-> FALSE,
                    call |-> overlay.call ]
    /\ UNCHANGED <<state, now, idSeq, lastOp, nops, isWindows, ctl, scn, calc,
                   paste, modernClipboard>>

\* the pointer or the number inputs of the overlay choose a crop area
setCropArea ==
  \E area \in Selections :
    /\ overlay.image # Null
    /\ overlay.cropArea # area
    /\ overlay' = [overlay EXCEPT !.cropArea = area]
    /\ UNCHANGED <<state, now, idSeq, lastOp, nops, isWindows, ctl, scn, calc,
                   paste, modernClipboard>>

\* App's handleCloseCrop (Escape, backdrop, cancel): the overlay unmounts, a
\* handleApplyCrop call that awaits its image keeps running
handleCloseCrop ==
  /\ overlay.image # Null
  /\ overlay' = [NoOverlay EXCEPT !.call = overlay.call]
  /\ UNCHANGED <<state, now, idSeq, lastOp, nops, isWindows, ctl, scn, calc,
                 paste, modernClipboard>>

\* handleApplyCrop up to its await: the call keeps the image prop and the
\* cropArea of the render it was made in
handleApplyCrop ==
  /\ overlay.image # Null
  /\ ~overlay.isProcessing
  /\ overlay.call = Null
  /\ overlay.cropArea.width > 0
  /\ overlay.cropArea.height > 0
  /\ overlay' = [overlay EXCEPT !.isProcessing = TRUE,
                                !.call = [ id |-> overlay.image.id,
                                           cropArea |-> overlay.cropArea ]]
  /\ UNCHANGED <<state, now, idSeq, lastOp, nops, isWindows, ctl, scn, calc,
                 paste, modernClipboard>>

\* handleApplyCrop after img.onload: UPDATE_IMAGE, ADD_HISTORY_STEP, onClose
cropImageLoaded(limit) ==
  /\ overlay.call # Null
  /\ LET area == overlay.call.cropArea
         updates == [ src |-> "cropped",
                      width |-> area.width,
                      height |-> area.height,
                      originalWidth |-> area.width,
                      originalHeight |-> area.height ]
         s1 == UPDATE_IMAGE(state, overlay.call.id, updates)
     IN Dispatch(limit, "handleApplyCrop", overlay.call.id, area,
                 ADD_HISTORY_STEP(s1, "crop-image", now, idSeq), 1)
  /\ overlay' = NoOverlay
  /\ UNCHANGED <<isWindows, ctl, scn, calc, paste, modernClipboard>>

\* handleApplyCrop after img.onerror: the alert, then setIsProcessing(false)
cropImageFailed ==
  /\ overlay.call # Null
  /\ overlay' = [overlay EXCEPT !.isProcessing = FALSE, !.call = Null]
  /\ UNCHANGED <<state, now, idSeq, lastOp, nops, isWindows, ctl, scn, calc,
                 paste, modernClipboard>>

\* SpecOverlay: both ways of committing a crop (the reducer's crop dialogue
\* and CropOverlay) on a pasted board, with the deletions and the Undo that
\* can take the target away.
NextOverlay ==
  \/ handleStartCrop
  \/ setCropArea
  \/ handleCloseCrop
  \/ handleApplyCrop
  \/ cropImageLoaded(MaxOverlayOps)
  \/ cropImageFailed
  \/ startCrop(MaxOverlayOps)
  \/ updateCropSelection(MaxOverlayOps)
  \/ applyCrop(MaxOverlayOps)
  \/ deleteImage(MaxOverlayOps)
  \/ undo(MaxOverlayOps)

SpecOverlay == InitBoard /\ [][NextOverlay]_vars

\* C38: a crop commit with selection size (sw, sh), by the reducer's
\* ApplyCrop or by CropOverlay's apply, on an image that exists sets the
\* target's width and originalWidth to sw and its height and originalHeight
\* to sh, and it appends a crop-image history step only if the target exists
\* when the commit is applied.
C38_CropCommit ==
  [][ ( /\ nops' > nops
        /\ lastOp'.type \in {"APPLY_CROP", "handleApplyCrop"}
        /\ lastOp'.arg # Null )
      => /\ Exists(state, lastOp'.id)
            => LET image == imageOf(state', lastOp'.id)
               IN /\ image.width = lastOp'.arg.width
                  /\ image.originalWidth = lastOp'.arg.width
                  /\ image.height = lastOp'.arg.height
                  /\ image.originalHeight = lastOp'.arg.height
         /\ Appended => Exists(state, lastOp'.id) ]_vars

\* ---------------------------------------------------------- usePasteHandler
\* dispatches budgeted in SpecPaste
MaxPasteOps == 3
\* pastes (Ctrl+V presses or paste events) of a run of SpecPaste
MaxPastes == 2

\* What a paste call hands to addImage for the clipboard image "a" of
\* 100 x 100: adjustImageSize keeps a size below 90 % of the canvas, and
\* calculateImagePosition reads the state.images of the render the call was
\* made in.
pastePayload(images) ==
  LET imageWidth == 100
      imageHeight == 100
      safetyMargin == 8
      canvasWidth == CanvasWidth - safetyMargin
      canvasHeight == CanvasHeight - safetyMargin
      centerX == canvasWidth \div 2
      centerY == canvasHeight \div 2
      lastImage == images[Len(images)]
      x1 == lastImage.x + 25
      y1 == lastImage.y + 25
      wraps == x1 + imageWidth > canvasWidth
      x2 == IF wraps THEN 50 ELSE x1
      y2 == IF wraps THEN lastImage.y + lastImage.height + 30 ELSE y1
      restarts == y2 + imageHeight > canvasHeight
      x == IF Len(images) = 0 \/ restarts
           THEN centerX - imageWidth \div 2 ELSE x2
      y == IF Len(images) = 0 \/ restarts
           THEN centerY - imageHeight \div 2 ELSE y2
  IN [ src |-> "a",
       x |-> Max(10, Min(canvasWidth - imageWidth - 10, x)),
       y |-> Max(10, Min(canvasHeight - imageHeight - 10, y)),
       width |-> imageWidth, height |-> imageHeight,
       originalWidth |-> imageWidth, originalHeight |-> imageHeight,
       visible |-> TRUE, aspectRatioLocked |-> TRUE ]

\* Ctrl+V: the keydown listener of every hook runs; a hook that is not
\* processing calls handlePasteFromClipboard, which sets its flag and awaits
\* the clipboard
handlePasteKeyDown ==
  LET serial == 1 + Max(paste["App"].event, paste["ImageCanvas"].event)
  IN /\ modernClipboard
     /\ serial <= MaxPastes
     /\ \E h \in DOMAIN paste : ~paste[h].isProcessingPaste
     /\ paste' = [ h \in DOMAIN paste |->
                     IF paste[h].isProcessingPaste THEN paste[h]
                     ELSE [ paste[h] EXCEPT
                              !.isProcessingPaste = TRUE,
                              !.call = pastePayload(state.images),
                              !.event = serial,
                              !.added = FALSE ] ]
     /\ UNCHANGED <<state, now, idSeq, lastOp, nops, isWindows, ctl, scn, calc,
                    overlay, modernClipboard>>

\* A paste event: the paste listener of every hook runs.  With no clipboard
\* data the handler returns after setIsProcessingPaste(true); of the two
\* copies of the hook in the repository one returns at once and the other
\* calls setIsProcessingPaste(false) first.
handlePasteEvent ==
  LET serial == 1 + Max(paste["App"].event, paste["ImageCanvas"].event)
  IN \E hasData \in BOOLEAN, resets \in BOOLEAN :
       /\ ~modernClipboard
       /\ serial <= MaxPastes
       /\ hasData => ~resets
       /\ \E h \in DOMAIN paste : ~paste[h].isProcessingPaste
       /\ paste' = [ h \in DOMAIN paste |->
                       IF paste[h].isProcessingPaste THEN paste[h]
                       ELSE [ paste[h] EXCEPT
                                !.isProcessingPaste = ~resets,
                                !.call = IF hasData
                                         THEN pastePayload(state.images)
                                         ELSE Null,
                                !.event = serial,
                                !.added = FALSE ] ]
       /\ UNCHANGED <<state, now, idSeq, lastOp, nops, isWindows, ctl, scn,
                      calc, overlay, modernClipboard>>

\* The awaited clipboard read and image decode of hook h settle: addImage on
\* success, nothing on failure, and in both cases the finally block arms the
\* timer that resets the flag.
pasteSettled(limit, h) ==
  /\ paste[h].call # Null
  /\ \/ /\ Len(state.images) < MaxImages
        /\ Dispatch(limit, "ADD_IMAGE", Null, paste[h].call,
                    ADD_IMAGE(state, paste[h].call, now, idSeq),
                    IF isDuplicate(state, paste[h].call, now) THEN 0 ELSE 2)
        /\ paste' = [ paste EXCEPT
                        ![h].call = Null,
                        ![h].timer = TRUE,
                        ![h].added = ~isDuplicate(state, paste[h].call, now) ]
     \/ /\ paste' = [paste EXCEPT ![h].call = Null, ![h].timer = TRUE]
        /\ UNCHANGED <<state, now, idSeq, lastOp, nops>>
  /\ UNCHANGED <<isWindows, ctl, scn, calc, overlay, modernClipboard>>

\* setTimeout(() => setIsProcessingPaste(false), 1)
resetProcessingPaste(h) ==
  /\ paste[h].timer
  /\ paste' = [paste EXCEPT ![h].timer = FALSE, ![h].isProcessingPaste = FALSE]
  /\ UNCHANGED <<state, now, idSeq, lastOp, nops, isWindows, ctl, scn, calc,
                 overlay, modernClipboard>>

\* SpecPaste: pastes into the empty document, in a browser with or without
\* the asynchronous clipboard API, handled by the hooks of App and of
\* ImageCanvas.  A promise that was awaited settles and a timer that was set
\* fires.
InitPaste ==
  /\ state = initialState
  /\ now = 0
  /\ idSeq = 0
  /\ lastOp = NoOp
  /\ nops = 0
  /\ isWindows = FALSE
  /\ ctl = Idle
  /\ scn = NoTrip
  /\ calc = NoCall
  /\ overlay = NoOverlay
  /\ paste = NoPaste
  /\ modernClipboard \in BOOLEAN

NextPaste ==
  \/ handlePasteKeyDown
  \/ handlePasteEvent
  \/ \E h \in DOMAIN paste : pasteSettled(MaxPasteOps, h)
  \/ \E h \in DOMAIN paste : resetProcessingPaste(h)
  \/ Tick

SpecPaste ==
  /\ InitPaste
  /\ [][NextPaste]_vars
  /\ \A h \in DOMAIN NoPaste :
       /\ WF_vars(pasteSettled(MaxPasteOps, h))
       /\ WF_vars(resetProcessingPaste(h))

\* C39: when the paste handlers of App and of ImageCanvas both fire for one
\* paste of the same clipboard image, at most one image is added to the
\* collection, whatever the interleaving and the duration of their
\* asynchronous steps.
C39_OnePasteOneImage ==
  ~ ( /\ paste["App"].event # 0
      /\ paste["App"].event = paste["ImageCanvas"].event
      /\ paste["App"].added
      /\ paste["ImageCanvas"].added )

\* C40: after every paste attempt (success, failure, or early return for a
\* paste event without clipboard data) isProcessingPaste eventually becomes
\* false again.
C40_FlagEventuallyReset ==
  \A h \in DOMAIN NoPaste :
    paste[h].isProcessingPaste ~> ~paste[h].isProcessingPaste
====
